---- MODULE Spec2Model ----
(***************************************************************************)
(* WalletAlert API: the domain persistence layer (apps/api/src/store.js    *)
(* over apps/api/src/db.js).  Every store operation asks getCollections()  *)
(* for the MongoDB collections and falls back to process-wide in-memory    *)
(* maps when there is no connection.  The in-memory branch of an operation *)
(* holds no await, so it runs as one step; the MongoDB branch is one step  *)
(* per awaited database command, and requests interleave between them.    *)
(*                                                                         *)
(* Strings that the code inspects character by character (category names,  *)
(* emoji) are sequences of one-character strings; JavaScript null and      *)
(* undefined are "null" for scalars and <<"null">> for such sequences and  *)
(* for documents.                                                          *)
(* A record id is a triple: <<"ms", t, 0>> is String(Date.now()) taken at  *)
(* clock value t, <<"ms-rnd", t, r>> is `${Date.now()}-${random}`, and     *)
(* <<"oid", k, 0>> is the k-th ObjectId the driver generated.              *)
(***************************************************************************)
EXTENDS Integers, Sequences, FiniteSets, TLC

\* ------------------------------------------------------------- bounds
\* Largest value of the millisecond clock Date.now() reads.
MaxNow == 2
\* Largest number of in-memory default seedings (each draws five random
\* suffixes).
MaxSeeds == 2
\* Largest number of ObjectIds generated.
MaxOid == 3
\* Largest number of budgets held, all owners together.
MaxBudgets == 2
\* Largest number of categories one owner holds beside the defaults.
MaxCustom == 2
\* Largest number of ObjectIds generated for category and transaction
\* documents.
MaxCatOid == 10
\* The same two limits where the whole Category Store is explored.
SeqSeeds == 1
SeqOids == 7
\* Largest number of transactions held, all owners together.
MaxTx == 2

Owners == {"u1", "u2"}
Procs == {"p1", "p2"}

null == "null"
nullSeq == <<"null">>

\* ------------------------------------------------------------ helpers
Range(s) == {s[i] : i \in DOMAIN s}

Min(S) == CHOOSE x \in S : \A y \in S : x <= y

Max(S) == CHOOSE x \in S : \A y \in S : x >= y

\* Object spread { ...old, ...ch }: the keys of both, ch winning.
Merge(old, ch) ==
  [f \in (DOMAIN old) \cup (DOMAIN ch) |-> IF f \in DOMAIN ch THEN ch[f] ELSE old[f]]

\* An object without key k (const { k, ...rest } = doc; delete copy.k).
Without(doc, k) == [f \in (DOMAIN doc) \ {k} |-> doc[f]]

\* Array.prototype.findIndex, given the positions whose element satisfies the
\* callback: the first of them; 0 stands for -1.
FindIndex(matches) == IF matches = {} THEN 0 ELSE Min(matches)

\* Array.prototype.splice(idx, 1): the list without its idx-th element.
RemoveAt(list, idx) ==
  [i \in 1..(Len(list) - 1) |-> IF i < idx THEN list[i] ELSE list[i + 1]]

\* list[idx] = v.
ReplaceAt(list, idx, v) == [list EXCEPT ![idx] = v]

UpperLetters ==
  <<"A","B","C","D","E","F","G","H","I","J","K","L","M",
    "N","O","P","Q","R","S","T","U","V","W","X","Y","Z">>

LowerLetters ==
  <<"a","b","c","d","e","f","g","h","i","j","k","l","m",
    "n","o","p","q","r","s","t","u","v","w","x","y","z">>

\* String.prototype.toLowerCase, one character.
LowerChar(c) ==
  IF \E i \in DOMAIN UpperLetters : UpperLetters[i] = c
  THEN LowerLetters[CHOOSE i \in DOMAIN UpperLetters : UpperLetters[i] = c]
  ELSE c

\* String.prototype.toLowerCase.
toLowerCase(s) == [i \in DOMAIN s |-> LowerChar(s[i])]

\* String.prototype.trim: leading and trailing blanks removed.
trim(s) ==
  LET keep == {i \in DOMAIN s : s[i] # " "}
  IN IF keep = {} THEN <<>> ELSE SubSeq(s, Min(keep), Max(keep))

\* String(name || '').trim()
normalizeCategoryName(name) == IF name = nullSeq THEN <<>> ELSE trim(name)

\* Array.from(trimmed).slice(0, 3).join('') || null; Array.from splits a
\* string into its code points, which are the elements of the sequence.
normalizeEmojiValue(value) ==
  IF value = nullSeq THEN nullSeq
  ELSE LET trimmed == trim(value)
       IN IF trimmed = <<>> THEN nullSeq
          ELSE SubSeq(trimmed, 1, IF Len(trimmed) < 3 THEN Len(trimmed) ELSE 3)

DEFAULT_CATEGORIES ==
  << <<"G","r","o","c","e","r","i","e","s">>,
     <<"T","a","k","e","o","u","t">>,
     <<"U","t","i","l","i","t","i","e","s">>,
     <<"E","l","e","c","t","r","o","n","i","c","s">>,
     <<"O","t","h","e","r">> >>

\* ------------------------------------------------------------- state
VARIABLES
  now,            \* the clock Date.now() and new Date() read
  rnd,            \* how many Math.random() suffixes have been drawn
  oids,           \* how many ObjectIds the driver has generated
  db,             \* db.js `db`: TRUE for a connected handle, FALSE for undefined
  memUsers,       \* store.js memUsers: auth0_id -> user
  memBudgets,     \* store.js memBudgets: auth0_id -> list
  memTx,          \* store.js memTx: auth0_id -> list
  memCategories,  \* store.js memCategories: auth0_id -> list
  usersCol,       \* MongoDB collection users, in insertion order
  budgetsCol,     \* MongoDB collection budgets
  txCol,          \* MongoDB collection transactions
  categoriesCol,  \* MongoDB collection categories
  call            \* per request slot: the store call it runs and its outcome

vars ==
  <<now, rnd, oids, db, memUsers, memBudgets, memTx, memCategories,
    usersCol, budgetsCol, txCol, categoriesCol, call>>

memVars == <<memUsers, memBudgets, memTx, memCategories>>

colVars == <<usersCol, budgetsCol, txCol, categoriesCol>>

\* db.js getDb / store.js getCollections: null when there is no connection.
getCollections == db

Idle ==
  [pc |-> "idle", op |-> "none", owner |-> "none", args |-> <<>>,
   ok |-> TRUE, err |-> "none", result |-> <<>>, loc |-> <<>>]

\* A slot takes a new call when it runs none.
Ready(p) == call[p].pc \in {"idle", "done"}

\* The slot's record for a call that has just started.
Started(p, op, owner, args) ==
  [pc |-> "run", op |-> op, owner |-> owner, args |-> args,
   ok |-> TRUE, err |-> "none", result |-> <<>>, loc |-> <<>>]

\* The call returns `result`.
Returned(c, result) == [c EXCEPT !.pc = "done", !.ok = TRUE, !.result = result]

\* The call throws new Error(err).
Thrown(c, err) == [c EXCEPT !.pc = "done", !.ok = FALSE, !.err = err]

\* The call awaits the database command `pc`.
Awaiting(c, pc, loc) == [c EXCEPT !.pc = pc, !.loc = loc]

\* index.js start(): connectDb() resolves to a handle or to null before the
\* server listens; nothing is stored yet.
Init ==
  /\ now = 1
  /\ rnd = 0
  /\ oids = 0
  /\ db \in BOOLEAN
  /\ memUsers = [o \in {} |-> <<>>]
  /\ memBudgets = [o \in Owners |-> <<>>]
  /\ memTx = [o \in Owners |-> <<>>]
  /\ memCategories = [o \in Owners |-> <<>>]
  /\ usersCol = <<>>
  /\ budgetsCol = <<>>
  /\ txCol = <<>>
  /\ categoriesCol = <<>>
  /\ call = [p \in Procs |-> Idle]

\* Time passes: the millisecond clock advances.
Tick ==
  /\ now < MaxNow
  /\ now' = now + 1
  /\ UNCHANGED <<rnd, oids, db, memVars, colVars, call>>

\* ------------------------------------------------------ MongoDB driver
\* new ObjectId(id) accepts only the 24-hex-digit strings ObjectIds print as;
\* it throws a BSONError on anything else, such as a Date.now() string.
IsObjectIdString(id) == id[1] = "oid"

\* The ObjectId the driver generates next.
NewObjectId == <<"oid", oids + 1, 0>>

\* collection.find({ auth0_id }).toArray(), in insertion order.
Find(col, auth0_id) == SelectSeq(col, LAMBDA d : d.auth0_id = auth0_id)

\* The position of the first document matching { _id, auth0_id }, or 0.
Locate(col, _id, auth0_id) ==
  FindIndex({i \in DOMAIN col : col[i]._id = _id /\ col[i].auth0_id = auth0_id})

\* The position of the document with this _id, or 0.
LocateId(col, _id) == FindIndex({i \in DOMAIN col : col[i]._id = _id})

\* ------------------------------------------------------ record mapping
\* const { _id, ...rest } = doc; return { id: String(_id), ...rest }: a
\* field named id in the document wins over the converted _id.
mapBudget(doc) ==
  IF doc = nullSeq THEN nullSeq ELSE Merge([id |-> doc._id], Without(doc, "_id"))

\* copy.id = String(copy._id); delete copy._id: the converted _id wins.
mapTransaction(doc) ==
  IF doc = nullSeq THEN nullSeq ELSE Merge(Without(doc, "_id"), [id |-> doc._id])

mapCategory(doc) ==
  IF doc = nullSeq THEN nullSeq ELSE Merge(Without(doc, "_id"), [id |-> doc._id])

\* --------------------------------------------------------- Budget Store
\* What listBudgets(auth0_id) returns in the current state.
listBudgetsView(auth0_id) ==
  IF ~getCollections THEN memBudgets[auth0_id]
  ELSE LET docs == Find(budgetsCol, auth0_id)
       IN [i \in DOMAIN docs |-> mapBudget(docs[i])]

listBudgets(p, auth0_id) ==
  /\ Ready(p)
  /\ call' = [call EXCEPT ![p] =
       Returned(Started(p, "listBudgets", auth0_id, <<>>), listBudgetsView(auth0_id))]
  /\ UNCHANGED <<now, rnd, oids, db, memVars, colVars>>

createBudget(p, auth0_id, budget) ==
  /\ Ready(p)
  /\ LET c == Started(p, "createBudget", auth0_id, <<>>)
     IN IF ~getCollections
        THEN LET list == memBudgets[auth0_id]
                 id == <<"ms", now, 0>>
                 doc == Merge(Merge([id |-> id, auth0_id |-> auth0_id], budget),
                              [createdAt |-> now])
             IN /\ Len(memBudgets["u1"]) + Len(memBudgets["u2"]) < MaxBudgets
                /\ memBudgets' = [memBudgets EXCEPT ![auth0_id] = Append(list, doc)]
                /\ call' = [call EXCEPT ![p] = Returned(c, doc)]
                /\ UNCHANGED <<oids, budgetsCol>>
        ELSE LET doc == Merge(Merge([auth0_id |-> auth0_id], budget),
                              [createdAt |-> now])
             IN /\ oids < MaxOid
                /\ Len(budgetsCol) < MaxBudgets
                /\ budgetsCol' = Append(budgetsCol, Merge([_id |-> NewObjectId], doc))
                /\ oids' = oids + 1
                /\ call' = [call EXCEPT ![p] =
                     Awaiting(c, "createBudget_findOne", [insertedId |-> NewObjectId])]
                /\ UNCHANGED memBudgets
  /\ UNCHANGED <<now, rnd, db, memUsers, memTx, memCategories, usersCol, txCol, categoriesCol>>

\* const created = await budgetsCol.findOne({ _id: res.insertedId })
createBudget_findOne(p) ==
  /\ call[p].pc = "createBudget_findOne"
  /\ LET idx == LocateId(budgetsCol, call[p].loc.insertedId)
         created == IF idx = 0 THEN nullSeq ELSE budgetsCol[idx]
     IN call' = [call EXCEPT ![p] = Returned(call[p], mapBudget(created))]
  /\ UNCHANGED <<now, rnd, oids, db, memVars, colVars>>

updateBudget(p, auth0_id, id, changes) ==
  /\ Ready(p)
  /\ LET c == Started(p, "updateBudget", auth0_id, [id |-> id])
     IN IF ~getCollections
        THEN LET list == memBudgets[auth0_id]
                 idx == FindIndex({i \in DOMAIN list : list[i].id = id})
             IN IF idx = 0
                THEN /\ call' = [call EXCEPT ![p] = Thrown(c, "Budget not found")]
                     /\ UNCHANGED <<memBudgets, budgetsCol>>
                ELSE /\ memBudgets' = [memBudgets EXCEPT ![auth0_id] =
                          ReplaceAt(list, idx, Merge(list[idx], changes))]
                     /\ call' = [call EXCEPT ![p] = Returned(c, Merge(list[idx], changes))]
                     /\ UNCHANGED budgetsCol
        ELSE IF ~IsObjectIdString(id)
        THEN /\ call' = [call EXCEPT ![p] = Thrown(c, "BSONError")]
             /\ UNCHANGED <<memBudgets, budgetsCol>>
        ELSE LET idx == Locate(budgetsCol, id, auth0_id)
             IN IF idx = 0
                THEN /\ call' = [call EXCEPT ![p] = Thrown(c, "Budget not found")]
                     /\ UNCHANGED <<memBudgets, budgetsCol>>
                ELSE /\ budgetsCol' = ReplaceAt(budgetsCol, idx, Merge(budgetsCol[idx], changes))
                     /\ call' = [call EXCEPT ![p] =
                          Returned(c, mapBudget(Merge(budgetsCol[idx], changes)))]
                     /\ UNCHANGED memBudgets
  /\ UNCHANGED <<now, rnd, oids, db, memUsers, memTx, memCategories, usersCol, txCol, categoriesCol>>

deleteBudget(p, auth0_id, id) ==
  /\ Ready(p)
  /\ LET c == Started(p, "deleteBudget", auth0_id, [id |-> id])
     IN IF ~getCollections
        THEN LET list == memBudgets[auth0_id]
                 idx == FindIndex({i \in DOMAIN list : list[i].id = id})
             IN IF idx = 0
                THEN /\ call' = [call EXCEPT ![p] = Thrown(c, "Budget not found")]
                     /\ UNCHANGED <<memBudgets, budgetsCol>>
                ELSE /\ memBudgets' = [memBudgets EXCEPT ![auth0_id] = RemoveAt(list, idx)]
                     /\ call' = [call EXCEPT ![p] = Returned(c, list[idx])]
                     /\ UNCHANGED budgetsCol
        ELSE IF ~IsObjectIdString(id)
        THEN /\ call' = [call EXCEPT ![p] = Thrown(c, "BSONError")]
             /\ UNCHANGED <<memBudgets, budgetsCol>>
        ELSE LET idx == Locate(budgetsCol, id, auth0_id)
             IN IF idx = 0
                THEN /\ call' = [call EXCEPT ![p] = Thrown(c, "Budget not found")]
                     /\ UNCHANGED <<memBudgets, budgetsCol>>
                ELSE /\ budgetsCol' = RemoveAt(budgetsCol, idx)
                     /\ call' = [call EXCEPT ![p] = Returned(c, mapBudget(budgetsCol[idx]))]
                     /\ UNCHANGED memBudgets
  /\ UNCHANGED <<now, rnd, oids, db, memUsers, memTx, memCategories, usersCol, txCol, categoriesCol>>

\* ----------------------------------------------------- Transaction Store
\* What listTransactions(auth0_id) returns in the current state.
listTransactionsView(auth0_id) ==
  IF ~getCollections THEN memTx[auth0_id]
  ELSE LET docs == Find(txCol, auth0_id)
       IN [i \in DOMAIN docs |-> mapTransaction(docs[i])]

txOtherVars ==
  <<now, rnd, db, memUsers, memBudgets, memCategories, usersCol, budgetsCol, categoriesCol>>

listTransactions(p, auth0_id) ==
  /\ Ready(p)
  /\ call' = [call EXCEPT ![p] =
       Returned(Started(p, "listTransactions", auth0_id, <<>>),
                listTransactionsView(auth0_id))]
  /\ UNCHANGED <<now, rnd, oids, db, memVars, colVars>>

createTransaction(p, auth0_id, tx) ==
  /\ Ready(p)
  /\ LET c == Started(p, "createTransaction", auth0_id, <<>>)
     IN IF ~getCollections
        THEN LET list == memTx[auth0_id]
                 doc == Merge(Merge([id |-> <<"ms", now, 0>>, auth0_id |-> auth0_id], tx),
                              [createdAt |-> now])
             IN /\ Len(memTx["u1"]) + Len(memTx["u2"]) < MaxTx
                /\ memTx' = [memTx EXCEPT ![auth0_id] = Append(list, doc)]
                /\ call' = [call EXCEPT ![p] = Returned(c, doc)]
                /\ UNCHANGED <<oids, txCol>>
        ELSE \* const res = await txCol.insertOne({ auth0_id, ...tx, createdAt })
             LET doc == Merge(Merge([auth0_id |-> auth0_id], tx), [createdAt |-> now])
             IN /\ oids < MaxCatOid
                /\ Len(txCol) < MaxTx
                /\ txCol' = Append(txCol, Merge([_id |-> NewObjectId], doc))
                /\ oids' = oids + 1
                /\ call' = [call EXCEPT ![p] =
                     Awaiting(c, "createTransaction_findOne", [insertedId |-> NewObjectId])]
                /\ UNCHANGED memTx
  /\ UNCHANGED txOtherVars

\* const created = await txCol.findOne({ _id: res.insertedId })
createTransaction_findOne(p) ==
  /\ call[p].pc = "createTransaction_findOne"
  /\ LET idx == LocateId(txCol, call[p].loc.insertedId)
         created == IF idx = 0 THEN nullSeq ELSE txCol[idx]
     IN call' = [call EXCEPT ![p] = Returned(call[p], mapTransaction(created))]
  /\ UNCHANGED <<now, rnd, oids, db, memVars, colVars>>

updateTransaction(p, auth0_id, id, changes) ==
  /\ Ready(p)
  /\ LET c == Started(p, "updateTransaction", auth0_id, [id |-> id])
     IN IF ~getCollections
        THEN LET list == memTx[auth0_id]
                 idx == FindIndex({i \in DOMAIN list : list[i].id = id})
             IN IF idx = 0
                THEN /\ call' = [call EXCEPT ![p] = Thrown(c, "Transaction not found")]
                     /\ UNCHANGED memTx
                ELSE /\ memTx' = [memTx EXCEPT ![auth0_id] =
                          ReplaceAt(list, idx, Merge(list[idx], changes))]
                     /\ call' = [call EXCEPT ![p] = Returned(c, Merge(list[idx], changes))]
        ELSE \* const existing = await txCol.findOne({ _id, auth0_id })
             /\ call' = [call EXCEPT ![p] =
                  IF ~IsObjectIdString(id) THEN Thrown(c, "BSONError")
                  ELSE IF Locate(txCol, id, auth0_id) = 0
                  THEN Thrown(c, "Transaction not found")
                  ELSE Awaiting(c, "updateTransaction_findOneAndUpdate",
                                [changes |-> changes])]
             /\ UNCHANGED memTx
  /\ UNCHANGED <<oids, txCol>>
  /\ UNCHANGED txOtherVars

\* const res = await txCol.findOneAndUpdate({ _id, auth0_id }, { $set: changes });
\* return mapTransaction(res.value): res.value is null when no document
\* matches any more.
updateTransaction_findOneAndUpdate(p) ==
  /\ call[p].pc = "updateTransaction_findOneAndUpdate"
  /\ LET idx == Locate(txCol, call[p].args.id, call[p].owner)
         value == Merge(txCol[idx], call[p].loc.changes)
     IN IF idx = 0
        THEN /\ call' = [call EXCEPT ![p] = Returned(call[p], mapTransaction(nullSeq))]
             /\ UNCHANGED txCol
        ELSE /\ txCol' = ReplaceAt(txCol, idx, value)
             /\ call' = [call EXCEPT ![p] = Returned(call[p], mapTransaction(value))]
  /\ UNCHANGED <<oids, memTx>>
  /\ UNCHANGED txOtherVars

deleteTransaction(p, auth0_id, id) ==
  /\ Ready(p)
  /\ LET c == Started(p, "deleteTransaction", auth0_id, [id |-> id])
     IN IF ~getCollections
        THEN LET list == memTx[auth0_id]
                 idx == FindIndex({i \in DOMAIN list : list[i].id = id})
             IN IF idx = 0
                THEN /\ call' = [call EXCEPT ![p] = Thrown(c, "Transaction not found")]
                     /\ UNCHANGED <<memTx, txCol>>
                ELSE /\ memTx' = [memTx EXCEPT ![auth0_id] = RemoveAt(list, idx)]
                     /\ call' = [call EXCEPT ![p] = Returned(c, list[idx])]
                     /\ UNCHANGED txCol
        ELSE IF ~IsObjectIdString(id)
        THEN /\ call' = [call EXCEPT ![p] = Thrown(c, "BSONError")]
             /\ UNCHANGED <<memTx, txCol>>
        ELSE \* await txCol.findOneAndDelete({ _id, auth0_id })
             LET idx == Locate(txCol, id, auth0_id)
             IN IF idx = 0
                THEN /\ call' = [call EXCEPT ![p] = Thrown(c, "Transaction not found")]
                     /\ UNCHANGED <<memTx, txCol>>
                ELSE /\ txCol' = RemoveAt(txCol, idx)
                     /\ call' = [call EXCEPT ![p] = Returned(c, mapTransaction(txCol[idx]))]
                     /\ UNCHANGED memTx
  /\ UNCHANGED oids
  /\ UNCHANGED txOtherVars

\* -------------------------------------------------------- Identity Store
\* Whether a user record is held for auth0_id.
userExists(auth0_id) ==
  IF ~getCollections THEN auth0_id \in DOMAIN memUsers
  ELSE \E i \in DOMAIN usersCol : usersCol[i].auth0_id = auth0_id

\* if (email): null and the empty string are falsy.
Truthy(email) == email # null /\ email # ""

\* A missing ownerId returns { user: null, created: false }.  In memory the
\* record is built or re-used and email is written only when truthy; on
\* MongoDB one findOneAndUpdate with upsert sets email, updatedAt and auth0_id
\* and reports in lastErrorObject.upserted whether it inserted.
upsertUser(p, auth0_id, email) ==
  /\ Ready(p)
  /\ LET c == Started(p, "upsertUser", auth0_id, [email |-> email])
     IN IF auth0_id = ""
        THEN /\ call' = [call EXCEPT ![p] = Returned(c, [user |-> nullSeq, created |-> FALSE])]
             /\ UNCHANGED <<memUsers, usersCol, oids>>
        ELSE IF ~getCollections
        THEN LET existed == auth0_id \in DOMAIN memUsers
                 found == IF existed THEN memUsers[auth0_id]
                          ELSE [auth0_id |-> auth0_id, email |-> email, createdAt |-> now]
                 existing == IF Truthy(email) THEN [found EXCEPT !.email = email] ELSE found
             IN /\ memUsers' = [o \in DOMAIN memUsers \cup {auth0_id} |->
                                  IF o = auth0_id THEN existing ELSE memUsers[o]]
                /\ call' = [call EXCEPT ![p] =
                     Returned(c, [user |-> existing, created |-> ~existed])]
                /\ UNCHANGED <<usersCol, oids>>
        ELSE LET idx == FindIndex({i \in DOMAIN usersCol : usersCol[i].auth0_id = auth0_id})
                 set == [email |-> email, updatedAt |-> now, auth0_id |-> auth0_id]
             IN IF idx = 0
                THEN LET value == Merge([_id |-> NewObjectId, createdAt |-> now], set)
                     IN /\ oids < MaxOid
                        /\ usersCol' = Append(usersCol, value)
                        /\ oids' = oids + 1
                        /\ call' = [call EXCEPT ![p] =
                             Returned(c, [user |-> value, created |-> TRUE])]
                        /\ UNCHANGED memUsers
                ELSE LET value == Merge(usersCol[idx], set)
                     IN /\ usersCol' = ReplaceAt(usersCol, idx, value)
                        /\ call' = [call EXCEPT ![p] =
                             Returned(c, [user |-> value, created |-> FALSE])]
                        /\ UNCHANGED <<memUsers, oids>>
  /\ UNCHANGED <<now, rnd, db, memBudgets, memTx, memCategories, budgetsCol, txCol, categoriesCol>>

getUser(p, auth0_id) ==
  /\ Ready(p)
  /\ LET c == Started(p, "getUser", auth0_id, <<>>)
         idx == FindIndex({i \in DOMAIN usersCol : usersCol[i].auth0_id = auth0_id})
         user == IF auth0_id = "" THEN nullSeq
                 ELSE IF ~getCollections
                 THEN (IF auth0_id \in DOMAIN memUsers THEN memUsers[auth0_id] ELSE nullSeq)
                 ELSE (IF idx = 0 THEN nullSeq ELSE usersCol[idx])
     IN call' = [call EXCEPT ![p] = Returned(c, user)]
  /\ UNCHANGED <<now, rnd, oids, db, memVars, colVars>>

\* ------------------------------------------------------- Category Store
\* Whether MongoDB accepts `^${trimmed}$` as a regular expression.  The
\* source escapes nothing, so a + in the name is a quantifier, and a
\* quantifier with nothing before it is a syntax error.  (Letters, blanks
\* and + after a character are modelled; the inputs hold no other
\* metacharacter.)
RegexValid(pattern) == pattern = <<>> \/ pattern[1] # "+"

\* Whether `^${pattern}$` with option i matches the whole string s.
RECURSIVE RegexMatch(_, _)
RegexMatch(pattern, s) ==
  IF pattern = <<>> THEN s = <<>>
  ELSE IF Len(pattern) >= 2 /\ pattern[2] = "+"
  THEN \E k \in 1..Len(s) :
         /\ \A j \in 1..k : LowerChar(s[j]) = LowerChar(pattern[1])
         /\ RegexMatch(SubSeq(pattern, 3, Len(pattern)), SubSeq(s, k + 1, Len(s)))
  ELSE /\ s # <<>>
       /\ LowerChar(s[1]) = LowerChar(pattern[1])
       /\ RegexMatch(Tail(pattern), Tail(s))

\* categoriesCol.findOne({ auth0_id, name: { $regex: `^${trimmed}$`,
\* $options: 'i' } }): the position of the first match, or 0.
FindByNameRegex(col, auth0_id, trimmed) ==
  FindIndex({i \in DOMAIN col : col[i].auth0_id = auth0_id /\ RegexMatch(trimmed, col[i].name)})

\* list.some(c => c.name.toLowerCase() === trimmed.toLowerCase())
SomeNameEquals(list, trimmed) ==
  \E i \in DOMAIN list : toLowerCase(list[i].name) = toLowerCase(trimmed)

\* The unique index is missing: no insert is rejected.
DuplicateKey_NoIndex(col, doc) == FALSE

\* db.js ensureIndexes: categories has the unique index { auth0_id: 1,
\* name: 1 }; an insert of a second document with the same owner and the
\* same name (compared exactly) fails with error code 11000.
DuplicateKey(col, doc) ==
  \E i \in DOMAIN col : col[i].auth0_id = doc.auth0_id /\ col[i].name = doc.name

\* ensureDbCategories' catch: a failed insertMany is ignored when its error
\* code is 11000, and the only write error the model produces is 11000.
IgnoresDuplicateKeyError == TRUE

\* The defaults are seeded with the first two in the wrong order.
DefaultDocs_Swapped(auth0_id, at) ==
  [i \in DOMAIN DEFAULT_CATEGORIES |->
     [auth0_id |-> auth0_id,
      name |-> DEFAULT_CATEGORIES[IF i = 1 THEN 2 ELSE IF i = 2 THEN 1 ELSE i],
      emoji |-> nullSeq, createdAt |-> at]]

\* The documents default seeding builds for an owner.
DefaultDocs(auth0_id, at) ==
  [i \in DOMAIN DEFAULT_CATEGORIES |->
     [auth0_id |-> auth0_id, name |-> DEFAULT_CATEGORIES[i], emoji |-> nullSeq,
      createdAt |-> at]]

\* Seeding happens on an owner's first use only, not again once random ids
\* have been drawn.
SeedsMem_FirstUseOnly(auth0_id) == memCategories[auth0_id] = <<>> /\ rnd = 0

\* Whether ensureMemCategories seeds: the owner has no list or an empty one.
SeedsMem(auth0_id) == memCategories[auth0_id] = <<>>

\* The list ensureMemCategories(auth0_id) returns, which it has stored.  The
\* random suffixes of the seeded ids are taken to be fresh.
ensureMemCategories(auth0_id) ==
  IF ~SeedsMem(auth0_id) THEN memCategories[auth0_id]
  ELSE LET docs == DefaultDocs(auth0_id, now)
       IN [i \in DOMAIN docs |-> Merge([id |-> <<"ms-rnd", now, rnd + i>>], docs[i])]

\* The random suffixes drawn once ensureMemCategories(auth0_id) has run.
RndAfterEnsure(auth0_id) ==
  IF SeedsMem(auth0_id) THEN rnd + Len(DEFAULT_CATEGORIES) ELSE rnd

\* Bound on the in-memory seedings.
CanEnsure(auth0_id) ==
  SeedsMem(auth0_id) => rnd < MaxSeeds * Len(DEFAULT_CATEGORIES)

\* How many categories of a list do not carry a default name.
Customs(list) ==
  Cardinality({i \in DOMAIN list : list[i].name \notin Range(DEFAULT_CATEGORIES)})

\* What listCategories(auth0_id) would find stored, without seeding.
storedCategories(auth0_id) ==
  IF ~getCollections THEN memCategories[auth0_id]
  ELSE LET docs == Find(categoriesCol, auth0_id)
       IN [i \in DOMAIN docs |-> mapCategory(docs[i])]

otherVars == <<db, memUsers, memBudgets, memTx, usersCol, budgetsCol, txCol>>

listCategories(p, auth0_id) ==
  /\ Ready(p)
  /\ LET c == Started(p, "listCategories", auth0_id, <<>>)
     IN IF ~getCollections
        THEN /\ CanEnsure(auth0_id)
             /\ memCategories' = [memCategories EXCEPT ![auth0_id] = ensureMemCategories(auth0_id)]
             /\ rnd' = RndAfterEnsure(auth0_id)
             /\ call' = [call EXCEPT ![p] = Returned(c, ensureMemCategories(auth0_id))]
        ELSE \* const existing = await categoriesCol.find({ auth0_id }).toArray()
             LET existing == Find(categoriesCol, auth0_id)
             IN /\ call' = [call EXCEPT ![p] =
                     IF Len(existing) > 0
                     THEN Returned(c, [i \in DOMAIN existing |-> mapCategory(existing[i])])
                     ELSE Awaiting(c, "ensureDbCategories_insertMany",
                                   [i |-> 1, at |-> now, failed |-> FALSE])]
                /\ UNCHANGED <<memCategories, rnd>>
  /\ UNCHANGED <<now, oids, categoriesCol, otherVars>>

\* await categoriesCol.insertMany(docs, { ordered: false }): the server
\* inserts the documents one at a time, in array order, and goes on after a
\* document the unique index rejects.
ensureDbCategories_insertMany(p) ==
  /\ call[p].pc = "ensureDbCategories_insertMany"
  /\ LET loc == call[p].loc
         doc == DefaultDocs(call[p].owner, loc.at)[loc.i]
         dup == DuplicateKey(categoriesCol, doc)
         last == loc.i = Len(DEFAULT_CATEGORIES)
         failed == loc.failed \/ dup
     IN /\ IF dup
           THEN UNCHANGED <<categoriesCol, oids>>
           ELSE /\ oids < MaxCatOid
                /\ categoriesCol' = Append(categoriesCol, Merge([_id |-> NewObjectId], doc))
                /\ oids' = oids + 1
        /\ call' = [call EXCEPT ![p] =
             IF ~last THEN Awaiting(call[p], "ensureDbCategories_insertMany",
                                    [loc EXCEPT !.i = loc.i + 1, !.failed = failed])
             ELSE IF failed /\ ~IgnoresDuplicateKeyError
             THEN Thrown(call[p], "E11000 duplicate key error")
             ELSE Awaiting(call[p], "ensureDbCategories_find",
                           [loc EXCEPT !.failed = failed])]
  /\ UNCHANGED <<now, rnd, memCategories, otherVars>>

\* return await categoriesCol.find({ auth0_id }).toArray()
ensureDbCategories_find(p) ==
  /\ call[p].pc = "ensureDbCategories_find"
  /\ LET docs == Find(categoriesCol, call[p].owner)
     IN call' = [call EXCEPT ![p] =
          Returned(call[p], [i \in DOMAIN docs |-> mapCategory(docs[i])])]
  /\ UNCHANGED <<now, rnd, oids, memCategories, categoriesCol, otherVars>>

createCategory(p, auth0_id, name, emojiValue) ==
  /\ Ready(p)
  /\ LET c == Started(p, "createCategory", auth0_id, [name |-> name])
         trimmed == normalizeCategoryName(name)
         emoji == normalizeEmojiValue(emojiValue)
     IN IF trimmed = <<>>
        THEN /\ call' = [call EXCEPT ![p] = Thrown(c, "Category name is required.")]
             /\ UNCHANGED <<memCategories, rnd>>
        ELSE IF ~getCollections
        THEN LET list == ensureMemCategories(auth0_id)
                 doc == [id |-> <<"ms", now, 0>>, auth0_id |-> auth0_id, name |-> trimmed,
                         emoji |-> emoji, createdAt |-> now, updatedAt |-> now]
             IN /\ CanEnsure(auth0_id)
                /\ rnd' = RndAfterEnsure(auth0_id)
                /\ IF SomeNameEquals(list, trimmed)
                   THEN /\ memCategories' = [memCategories EXCEPT ![auth0_id] = list]
                        /\ call' = [call EXCEPT ![p] = Thrown(c, "Category already exists.")]
                   ELSE /\ Customs(list) < MaxCustom
                        /\ memCategories' = [memCategories EXCEPT ![auth0_id] = Append(list, doc)]
                        /\ call' = [call EXCEPT ![p] = Returned(c, doc)]
        ELSE \* const existing = await categoriesCol.findOne({ auth0_id, name: ... })
             /\ call' = [call EXCEPT ![p] =
                  IF ~RegexValid(trimmed)
                  THEN Thrown(c, "Regular expression is invalid")
                  ELSE IF FindByNameRegex(categoriesCol, auth0_id, trimmed) # 0
                  THEN Thrown(c, "Category already exists.")
                  ELSE Awaiting(c, "createCategory_insertOne",
                         [doc |-> [auth0_id |-> auth0_id, name |-> trimmed, emoji |-> emoji,
                                   createdAt |-> now, updatedAt |-> now]])]
             /\ UNCHANGED <<memCategories, rnd>>
  /\ UNCHANGED <<now, oids, categoriesCol, otherVars>>

\* const res = await categoriesCol.insertOne(doc)
createCategory_insertOne(p) ==
  /\ call[p].pc = "createCategory_insertOne"
  /\ LET doc == call[p].loc.doc
     IN IF DuplicateKey(categoriesCol, doc)
        THEN /\ call' = [call EXCEPT ![p] = Thrown(call[p], "E11000 duplicate key error")]
             /\ UNCHANGED <<categoriesCol, oids>>
        ELSE /\ oids < MaxCatOid
             /\ Customs(Find(categoriesCol, doc.auth0_id)) < MaxCustom
             /\ categoriesCol' = Append(categoriesCol, Merge([_id |-> NewObjectId], doc))
             /\ oids' = oids + 1
             /\ call' = [call EXCEPT ![p] =
                  Awaiting(call[p], "createCategory_findOne", [insertedId |-> NewObjectId])]
  /\ UNCHANGED <<now, rnd, memCategories, otherVars>>

\* const created = await categoriesCol.findOne({ _id: res.insertedId })
createCategory_findOne(p) ==
  /\ call[p].pc = "createCategory_findOne"
  /\ LET idx == LocateId(categoriesCol, call[p].loc.insertedId)
         created == IF idx = 0 THEN nullSeq ELSE categoriesCol[idx]
     IN call' = [call EXCEPT ![p] = Returned(call[p], mapCategory(created))]
  /\ UNCHANGED <<now, rnd, oids, memCategories, categoriesCol, otherVars>>

\* The update also overwrites the name.
categoryUpdateDoc_Renames(updates) ==
  [emoji |-> normalizeEmojiValue(updates.emoji), updatedAt |-> now,
   name |-> normalizeEmojiValue(updates.emoji)]

\* The fields updateCategory writes: { ...list[idx], emoji, updatedAt } in
\* memory, $set: { emoji, updatedAt } on MongoDB.
categoryUpdateDoc(updates) ==
  [emoji |-> normalizeEmojiValue(updates.emoji), updatedAt |-> now]

\* `updates` is a payload object: a record with or without the key emoji.
updateCategory(p, auth0_id, id, updates) ==
  /\ Ready(p)
  /\ LET c == Started(p, "updateCategory", auth0_id, [id |-> id])
     IN IF id = nullSeq
        THEN /\ call' = [call EXCEPT ![p] = Thrown(c, "Category id is required.")]
             /\ UNCHANGED <<memCategories, rnd, categoriesCol>>
        ELSE IF "emoji" \notin DOMAIN updates
        THEN /\ call' = [call EXCEPT ![p] = Thrown(c, "Emoji update is required.")]
             /\ UNCHANGED <<memCategories, rnd, categoriesCol>>
        ELSE IF ~getCollections
        THEN LET list == ensureMemCategories(auth0_id)
                 idx == FindIndex({i \in DOMAIN list : list[i].id = id})
                 updated == Merge(list[idx], categoryUpdateDoc(updates))
             IN /\ CanEnsure(auth0_id)
                /\ rnd' = RndAfterEnsure(auth0_id)
                /\ IF idx = 0
                   THEN /\ memCategories' = [memCategories EXCEPT ![auth0_id] = list]
                        /\ call' = [call EXCEPT ![p] = Thrown(c, "Category not found")]
                   ELSE /\ memCategories' = [memCategories EXCEPT ![auth0_id] =
                             ReplaceAt(list, idx, updated)]
                        /\ call' = [call EXCEPT ![p] = Returned(c, updated)]
                /\ UNCHANGED categoriesCol
        ELSE IF ~IsObjectIdString(id)
        THEN /\ call' = [call EXCEPT ![p] = Thrown(c, "BSONError")]
             /\ UNCHANGED <<memCategories, rnd, categoriesCol>>
        ELSE \* await categoriesCol.findOneAndUpdate({ _id, auth0_id }, { $set: ... })
             LET idx == Locate(categoriesCol, id, auth0_id)
                 updated == Merge(categoriesCol[idx], categoryUpdateDoc(updates))
             IN IF idx = 0
                THEN /\ call' = [call EXCEPT ![p] = Thrown(c, "Category not found")]
                     /\ UNCHANGED <<memCategories, rnd, categoriesCol>>
                ELSE /\ categoriesCol' = ReplaceAt(categoriesCol, idx, updated)
                     /\ call' = [call EXCEPT ![p] = Returned(c, mapCategory(updated))]
                     /\ UNCHANGED <<memCategories, rnd>>
  /\ UNCHANGED <<now, oids, otherVars>>

\* The delete also removes the owner's transactions that name the category.
deleteCategory_Cascade(p, auth0_id, id) ==
  /\ Ready(p)
  /\ LET c == Started(p, "deleteCategory", auth0_id, [id |-> id])
     IN IF ~getCollections
        THEN LET list == ensureMemCategories(auth0_id)
                 idx == FindIndex({i \in DOMAIN list : list[i].id = id})
             IN /\ CanEnsure(auth0_id)
                /\ rnd' = RndAfterEnsure(auth0_id)
                /\ IF idx = 0
                   THEN /\ memCategories' = [memCategories EXCEPT ![auth0_id] = list]
                        /\ call' = [call EXCEPT ![p] = Thrown(c, "Category not found")]
                        /\ UNCHANGED memTx
                   ELSE /\ memCategories' = [memCategories EXCEPT ![auth0_id] =
                             RemoveAt(list, idx)]
                        /\ memTx' = [memTx EXCEPT ![auth0_id] =
                             SelectSeq(@, LAMBDA t : t.category # list[idx].name)]
                        /\ call' = [call EXCEPT ![p] = Returned(c, list[idx])]
                /\ UNCHANGED <<categoriesCol, txCol>>
        ELSE LET idx == IF IsObjectIdString(id) THEN Locate(categoriesCol, id, auth0_id) ELSE 0
             IN IF idx = 0
                THEN /\ call' = [call EXCEPT ![p] = Thrown(c, "Category not found")]
                     /\ UNCHANGED <<memCategories, rnd, categoriesCol, memTx, txCol>>
                ELSE /\ categoriesCol' = RemoveAt(categoriesCol, idx)
                     /\ txCol' = SelectSeq(txCol, LAMBDA t :
                          ~(t.auth0_id = auth0_id /\ t.category = categoriesCol[idx].name))
                     /\ call' = [call EXCEPT ![p] = Returned(c, mapCategory(categoriesCol[idx]))]
                     /\ UNCHANGED <<memCategories, rnd, memTx>>
  /\ UNCHANGED <<now, oids, db, memUsers, memBudgets, usersCol, budgetsCol>>

deleteCategory(p, auth0_id, id) ==
  /\ Ready(p)
  /\ LET c == Started(p, "deleteCategory", auth0_id, [id |-> id])
     IN IF ~getCollections
        THEN LET list == ensureMemCategories(auth0_id)
                 idx == FindIndex({i \in DOMAIN list : list[i].id = id})
             IN /\ CanEnsure(auth0_id)
                /\ rnd' = RndAfterEnsure(auth0_id)
                /\ IF idx = 0
                   THEN /\ memCategories' = [memCategories EXCEPT ![auth0_id] = list]
                        /\ call' = [call EXCEPT ![p] = Thrown(c, "Category not found")]
                   ELSE /\ memCategories' = [memCategories EXCEPT ![auth0_id] =
                             RemoveAt(list, idx)]
                        /\ call' = [call EXCEPT ![p] = Returned(c, list[idx])]
                /\ UNCHANGED categoriesCol
        ELSE IF ~IsObjectIdString(id)
        THEN /\ call' = [call EXCEPT ![p] = Thrown(c, "BSONError")]
             /\ UNCHANGED <<memCategories, rnd, categoriesCol>>
        ELSE \* await categoriesCol.findOneAndDelete({ _id, auth0_id })
             LET idx == Locate(categoriesCol, id, auth0_id)
             IN IF idx = 0
                THEN /\ call' = [call EXCEPT ![p] = Thrown(c, "Category not found")]
                     /\ UNCHANGED <<memCategories, rnd, categoriesCol>>
                ELSE /\ categoriesCol' = RemoveAt(categoriesCol, idx)
                     /\ call' = [call EXCEPT ![p] = Returned(c, mapCategory(categoriesCol[idx]))]
                     /\ UNCHANGED <<memCategories, rnd>>
  /\ UNCHANGED <<now, oids, otherVars>>

categoryExists(p, auth0_id, name) ==
  /\ Ready(p)
  /\ LET c == Started(p, "categoryExists", auth0_id, [name |-> name])
         trimmed == normalizeCategoryName(name)
     IN IF trimmed = <<>>
        THEN /\ call' = [call EXCEPT ![p] = Returned(c, FALSE)]
             /\ UNCHANGED <<memCategories, rnd>>
        ELSE IF ~getCollections
        THEN /\ CanEnsure(auth0_id)
             /\ rnd' = RndAfterEnsure(auth0_id)
             /\ memCategories' = [memCategories EXCEPT ![auth0_id] = ensureMemCategories(auth0_id)]
             /\ call' = [call EXCEPT ![p] =
                  Returned(c, SomeNameEquals(ensureMemCategories(auth0_id), trimmed))]
        ELSE \* const found = await categoriesCol.findOne({ auth0_id, name: ... })
             /\ call' = [call EXCEPT ![p] =
                  IF ~RegexValid(trimmed)
                  THEN Thrown(c, "Regular expression is invalid")
                  ELSE Returned(c, FindByNameRegex(categoriesCol, auth0_id, trimmed) # 0)]
             /\ UNCHANGED <<memCategories, rnd>>
  /\ UNCHANGED <<now, oids, categoriesCol, otherVars>>

\* ------------------------------------------------------------ inputs
\* Budgets the callers create, and the changes PUT /api/budgets/:id passes on
\* (the whole request body, so any field a client sends).
BudgetInputs ==
  {[period |-> "weekly", amount |-> 100], [period |-> "monthly", amount |-> 500]}

BudgetChanges == {[amount |-> 600], [auth0_id |-> "u2"]}

\* The id a slot's previous call named, if it named one.
PreviousId(p) ==
  IF "id" \in DOMAIN call[p].args THEN {call[p].args.id} ELSE {}

\* The ids a caller can name: those of the budgets any owner is shown, and
\* the id its previous call named.
BudgetIds(p) ==
  UNION {{listBudgetsView(o)[i].id : i \in DOMAIN listBudgetsView(o)} : o \in Owners}
    \cup PreviousId(p)

\* The Budget Store, one request at a time.
NextBudget ==
  \/ Tick
  \/ \E o \in Owners : listBudgets("p1", o)
  \/ \E o \in Owners, b \in BudgetInputs : createBudget("p1", o, b)
  \/ createBudget_findOne("p1")
  \/ \E o \in Owners, id \in BudgetIds("p1"), ch \in BudgetChanges :
       updateBudget("p1", o, id, ch)
  \/ \E o \in Owners, id \in BudgetIds("p1") : deleteBudget("p1", o, id)

SpecBudget == Init /\ [][NextBudget]_vars

\* Category names the callers send: a new name with blanks around it, a
\* default name in lower case, a name holding a +, that name in another
\* case, and a blank name.
NameInputs ==
  { <<" ","P","e","t"," ">>,
    <<"g","r","o","c","e","r","i","e","s">>,
    <<"A","+">>, <<"a","+">>, <<" ">> }

\* The emoji the callers send with a new category: one code point.
EmojiInputs == { <<"E1">> }

\* Update payloads PUT /api/categories/:id builds, and an empty one.
CategoryUpdates == { [emoji |-> <<"E1">>], <<>> }

\* The ids a caller can name: that of the last category any owner holds, and
\* the id its previous call named.
CategoryIds(p) ==
  UNION {{storedCategories(o)[i].id : i \in DOMAIN storedCategories(o) \cap
                                           {Len(storedCategories(o))}} : o \in Owners}
    \cup PreviousId(p)

\* The owner whose requests the Category Store specifications follow.
CatOwners == {"u1"}

\* The counters stay within the limits of the whole-store exploration.
SeqCap ==
  /\ rnd' <= SeqSeeds * Len(DEFAULT_CATEGORIES)
  /\ oids' <= SeqOids

\* The Category Store, one request at a time.
NextCategory ==
  \/ Tick
  \/ \E o \in CatOwners : listCategories("p1", o) /\ SeqCap
  \/ ensureDbCategories_insertMany("p1") /\ SeqCap
  \/ ensureDbCategories_find("p1")
  \/ \E o \in CatOwners, name \in NameInputs, e \in EmojiInputs :
       createCategory("p1", o, name, e) /\ SeqCap
  \/ createCategory_insertOne("p1") /\ SeqCap
  \/ createCategory_findOne("p1")
  \/ \E o \in CatOwners, id \in CategoryIds("p1"), u \in CategoryUpdates :
       updateCategory("p1", o, id, u) /\ SeqCap
  \/ \E o \in CatOwners, id \in CategoryIds("p1") : deleteCategory("p1", o, id) /\ SeqCap
  \/ \E o \in CatOwners, name \in NameInputs : categoryExists("p1", o, name) /\ SeqCap

SpecCategory == Init /\ [][NextCategory]_vars

\* Names two racing requests send: the same new name in two cases, and a
\* default name in lower case.
RaceNames ==
  { <<"P","e","t">>, <<"p","e","t">>, <<"g","r","o","c","e","r","i","e","s">> }

\* The server runs on MongoDB.
InitDurable == Init /\ db = TRUE

\* Two requests in flight on the durable backend: first reads that seed the
\* defaults, and category creations.
NextCategoryRace ==
  \/ \E p \in Procs, o \in CatOwners : listCategories(p, o)
  \/ \E p \in Procs : ensureDbCategories_insertMany(p)
  \/ \E p \in Procs : ensureDbCategories_find(p)
  \/ \E p \in Procs, o \in CatOwners, name \in RaceNames, e \in EmojiInputs :
       createCategory(p, o, name, e)
  \/ \E p \in Procs : createCategory_insertOne(p)
  \/ \E p \in Procs : createCategory_findOne(p)

SpecCategoryRace == InitDurable /\ [][NextCategoryRace]_vars

\* Owner identifiers the Identity Store is called with: two subjects and an
\* empty one.
UserIds == Owners \cup {""}

\* E-mail addresses it is called with: none (POST /api/bootstrap passes null
\* when the token carries no e-mail), and two addresses.
Emails == {null, "a@x", "b@x"}

\* The Identity Store, one request at a time.
NextUser ==
  \/ Tick
  \/ \E o \in UserIds, e \in Emails : upsertUser("p1", o, e)
  \/ \E o \in UserIds : getUser("p1", o)

SpecUser == Init /\ [][NextUser]_vars


\* ---- two servers, one per backend, given the same requests
\* Slot p1 is a request to a server without a database and slot p2 the same
\* request to a server on MongoDB.  The in-memory path touches only the mem
\* maps and the MongoDB path only the collections, so one state holds both
\* servers; db tells which of the two takes the next step.  A request is first
\* answered in memory, then by MongoDB, then the next request is sent.
ParityNames ==
  { <<"P","e","t">>, <<"g","r","o","c","e","r","i","e","s">>, <<" ">> }

ParityUpdates == { [emoji |-> <<"E1">>] }

\* Ids no record ever had: a Date.now() string and an ObjectId string.
MissingMemId == <<"ms", 0, 0>>
MissingOid == <<"oid", 0, 0>>

\* The owner's categories line up on the two servers, so that "the last one"
\* names corresponding records.
LinedUp(o) ==
  /\ memCategories[o] # <<>>
  /\ Len(memCategories[o]) = Len(Find(categoriesCol, o))

\* The ids the in-memory request can name.
ParityMemIds(o) ==
  {MissingMemId} \cup
    (IF LinedUp(o) THEN {memCategories[o][Len(memCategories[o])].id} ELSE {})

\* The id the MongoDB request names for the id the in-memory request named.
ParityOid(o) ==
  IF call["p1"].args.id = MissingMemId THEN MissingOid
  ELSE mapCategory(Find(categoriesCol, o)[Len(Find(categoriesCol, o))]).id

\* The request is sent to the in-memory server.
ParityMem ==
  /\ ~db
  /\ call["p1"].pc = "idle"
  /\ \E o \in CatOwners :
       \/ listCategories("p1", o)
       \/ \E name \in ParityNames, e \in EmojiInputs : createCategory("p1", o, name, e)
       \/ \E name \in ParityNames : categoryExists("p1", o, name)
       \/ \E id \in ParityMemIds(o), u \in ParityUpdates : updateCategory("p1", o, id, u)
       \/ \E id \in ParityMemIds(o) : deleteCategory("p1", o, id)

\* The in-memory server has answered; the same request goes to MongoDB.
SendToDurable ==
  /\ ~db
  /\ call["p1"].pc = "done"
  /\ db' = TRUE
  /\ call' = [call EXCEPT !["p2"] = Idle]
  /\ UNCHANGED <<now, rnd, oids, memVars, colVars>>

\* The MongoDB server starts the request the in-memory server answered.
ParityDurable ==
  /\ db
  /\ call["p2"].pc = "idle"
  /\ LET o == call["p1"].owner
         op == call["p1"].op
     IN \/ op = "listCategories" /\ listCategories("p2", o)
        \/ /\ op = "createCategory"
           /\ \E e \in EmojiInputs : createCategory("p2", o, call["p1"].args.name, e)
        \/ op = "categoryExists" /\ categoryExists("p2", o, call["p1"].args.name)
        \/ /\ op = "updateCategory"
           /\ \E u \in ParityUpdates : updateCategory("p2", o, ParityOid(o), u)
        \/ op = "deleteCategory" /\ deleteCategory("p2", o, ParityOid(o))

\* Both servers have answered; the next request can be sent.
NextRequest ==
  /\ db
  /\ call["p2"].pc = "done"
  /\ db' = FALSE
  /\ call' = [call EXCEPT !["p1"] = Idle]
  /\ UNCHANGED <<now, rnd, oids, memVars, colVars>>

InitMem == Init /\ db = FALSE

NextParity ==
  \/ ParityMem
  \/ SendToDurable
  \/ ParityDurable
  \/ ensureDbCategories_insertMany("p2")
  \/ ensureDbCategories_find("p2")
  \/ createCategory_insertOne("p2")
  \/ createCategory_findOne("p2")
  \/ NextRequest

SpecParity == InitMem /\ [][NextParity]_vars


\* ---- categories and transactions of two owners, one request at a time
\* The expense POST /api/transactions passes on: a positive amount and the
\* trimmed name of a category.
TxInputs == { [amount |-> 5, category |-> <<"O","t","h","e","r">>] }

\* The update payload PUT /api/categories/:id builds.
LedgerUpdates == { [emoji |-> <<"E1">>] }

NextLedger ==
  \/ \E o \in Owners : listCategories("p1", o)
  \/ ensureDbCategories_insertMany("p1")
  \/ ensureDbCategories_find("p1")
  \/ \E o \in Owners, id \in CategoryIds("p1"), u \in LedgerUpdates :
       updateCategory("p1", o, id, u)
  \/ \E o \in Owners, id \in CategoryIds("p1") : deleteCategory("p1", o, id)
  \/ \E o \in Owners, tx \in TxInputs : createTransaction("p1", o, tx)
  \/ createTransaction_findOne("p1")
  \/ \E o \in Owners : listTransactions("p1", o)

SpecLedger == Init /\ [][NextLedger]_vars


\* ---- the emoji normalisation on its own
\* Code points an emoji input is made of: a pictograph, the variation
\* selector U+FE0F, the zero-width joiner U+200D, and a blank.
CodePoints == {"E1", "VS", "ZWJ", " "}

\* Longest emoji input, in code points.
MaxEmojiLen == 5

EmojiValues == UNION {[1..n -> CodePoints] : n \in 0..MaxEmojiLen}

\* A caller is about to have an emoji value normalised.
InitEmoji ==
  /\ now = 1 /\ rnd = 0 /\ oids = 0
  /\ db \in BOOLEAN
  /\ memUsers = [o \in {} |-> <<>>]
  /\ memBudgets = [o \in Owners |-> <<>>]
  /\ memTx = [o \in Owners |-> <<>>]
  /\ memCategories = [o \in Owners |-> <<>>]
  /\ usersCol = <<>> /\ budgetsCol = <<>> /\ txCol = <<>> /\ categoriesCol = <<>>
  /\ \E value \in EmojiValues :
       call = [p \in Procs |->
                 IF p = "p1"
                 THEN Started(p, "normalizeEmojiValue", "none", [value |-> value])
                 ELSE Idle]

\* createCategory and updateCategory normalise the emoji they are given
\* before anything else is looked at.
normalizeEmojiValue_call(p) ==
  /\ call[p].pc = "run"
  /\ call[p].op = "normalizeEmojiValue"
  /\ call' = [call EXCEPT ![p] = Returned(call[p], normalizeEmojiValue(call[p].args.value))]
  /\ UNCHANGED <<now, rnd, oids, db, memVars, colVars>>

NextEmoji == normalizeEmojiValue_call("p1")

SpecEmoji == InitEmoji /\ [][NextEmoji]_vars


\* ---- an owner who deletes every category and lists again
\* The owner whose categories are deleted; the other owner only lists, so the
\* other owner has no category exactly when they never listed.
Deleter == "u1"

NextReseed ==
  \/ \E o \in Owners : listCategories("p1", o)
  \/ ensureDbCategories_insertMany("p1")
  \/ ensureDbCategories_find("p1")
  \/ \E id \in CategoryIds("p1") : deleteCategory("p1", Deleter, id)

SpecReseed == Init /\ [][NextReseed]_vars


\* ---- the budget routes in front of the Budget Store
\* Values a JSON body can hold besides texts and numbers.  null and false are
\* written as their JSON text, and undefined stands for a field the body does
\* not have; no text a client sends in the model is one of these three.
jsFalse == "false"

undefined == "undefined"

\* JavaScript truthiness of a period value.
IsTruthy(v) == v \notin {undefined, null, jsFalse, ""}

\* NaN and the infinities: numbers Number.isFinite rejects.
NaN == [finite |-> FALSE, n |-> 0]

\* Number(amount).  A body's amount is a pair of its JSON type and its value:
\* a number converts to itself, null and the empty text to 0, a numeric text
\* to its number, a text too large for a double to Infinity, any other text
\* and undefined to NaN.
Number(v) ==
  CASE v[1] = "number" -> [finite |-> TRUE, n |-> v[2]]
    [] v[1] = "null" -> [finite |-> TRUE, n |-> 0]
    [] v[1] = "string" /\ v[2] = "" -> [finite |-> TRUE, n |-> 0]
    [] v[1] = "string" /\ v[2] = "7" -> [finite |-> TRUE, n |-> 7]
    [] OTHER -> NaN

\* !Number.isFinite(normalizedAmount) || normalizedAmount <= 0
AmountRejected(normalizedAmount) ==
  ~normalizedAmount.finite \/ normalizedAmount.n <= 0

allowedPeriods == {"weekly", "monthly"}

\* const { period, amount, categories } = req.body
Field(body, k) == IF k \in DOMAIN body THEN body[k] ELSE undefined

AmountField(body) == IF "amount" \in DOMAIN body THEN body.amount ELSE <<"undefined">>

\* return res.status(400).json({ error }): nothing is stored.
Responds400(p, route, sub, error) ==
  /\ Ready(p)
  /\ call' = [call EXCEPT ![p] = Thrown(Started(p, route, sub, <<>>), error)]
  /\ UNCHANGED <<now, rnd, oids, db, memVars, colVars>>

\* POST /api/budgets
POST_budgets(p, sub, body) ==
  LET period == Field(body, "period")
      normalizedAmount == Number(AmountField(body))
  IN IF AmountRejected(normalizedAmount)
     THEN Responds400(p, "POST /api/budgets", sub, "Budget amount must be greater than zero.")
     ELSE IF IsTruthy(period) /\ period \notin allowedPeriods
     THEN Responds400(p, "POST /api/budgets", sub, "Budget period must be weekly or monthly.")
     ELSE createBudget(p, sub, [period |-> IF IsTruthy(period) THEN period ELSE "weekly",
                                amount |-> normalizedAmount.n,
                                categories |-> Field(body, "categories")])

\* The period check of PUT /api/budgets/:id: if (changes.period) { ... }
PutChecksPeriod(changes) == IsTruthy(Field(changes, "period"))

\* PUT /api/budgets/:id: changes is a copy of the whole body, with amount
\* replaced by its number when the body has one.
PUT_budgets(p, sub, id, body) ==
  LET hasAmount == "amount" \in DOMAIN body
      normalizedAmount == Number(AmountField(body))
      changes == IF hasAmount THEN Merge(body, [amount |-> normalizedAmount.n]) ELSE body
  IN IF hasAmount /\ AmountRejected(normalizedAmount)
     THEN Responds400(p, "PUT /api/budgets/:id", sub, "Budget amount must be greater than zero.")
     ELSE IF PutChecksPeriod(changes) /\ changes.period \notin allowedPeriods
     THEN Responds400(p, "PUT /api/budgets/:id", sub, "Budget period must be weekly or monthly.")
     ELSE updateBudget(p, sub, id, changes)

\* Bodies clients post: well-formed ones, an amount sent as text, a period
\* left out or empty, and ones either check rejects.
PostBodies ==
  { [period |-> "monthly", amount |-> <<"number", 500>>, categories |-> "all"],
    [amount |-> <<"string", "7">>],
    [period |-> "", amount |-> <<"number", 100>>],
    [period |-> null, amount |-> <<"number", 100>>, note |-> "x"],
    [period |-> "yearly", amount |-> <<"number", 100>>],
    [period |-> "weekly", amount |-> <<"number", 0>>],
    [period |-> "weekly", amount |-> <<"string", "abc">>],
    [period |-> "weekly", amount |-> <<"null">>],
    [period |-> "weekly"] }

\* Bodies clients put: a new amount, a new period, an extra field, a period
\* that is empty, null or false, and ones either check rejects.
PutBodies ==
  { [amount |-> <<"number", 600>>],
    [amount |-> <<"string", "7">>, note |-> "x"],
    [period |-> "monthly"],
    [period |-> ""],
    [period |-> null],
    [period |-> jsFalse],
    [period |-> "yearly"],
    [amount |-> <<"number", 0 - 1>>],
    [amount |-> <<"null">>],
    [amount |-> <<"string", "1e999">>] }

\* The budget routes, one request at a time.
NextBudgetRoutes ==
  \/ \E o \in Owners, body \in PostBodies : POST_budgets("p1", o, body)
  \/ createBudget_findOne("p1")
  \/ \E o \in Owners, id \in BudgetIds("p1"), body \in PutBodies :
       PUT_budgets("p1", o, id, body)
  \/ \E o \in Owners : listBudgets("p1", o)

SpecBudgetRoutes == Init /\ [][NextBudgetRoutes]_vars


\* ---- the budget period calculator of the web client
\* An instant is a count of hours of local civil time from 2025-01-01 00:00,
\* in a zone whose offset does not change.  The months the instants of the
\* model fall in, each with the day count of its first day; month is the
\* value getMonth() gives (0 is January).
Months ==
  << [year |-> 2024, month |-> 11, first |-> 0 - 31, len |-> 31],
     [year |-> 2025, month |-> 0, first |-> 0, len |-> 31],
     [year |-> 2025, month |-> 1, first |-> 31, len |-> 28],
     [year |-> 2025, month |-> 2, first |-> 59, len |-> 31],
     [year |-> 2025, month |-> 3, first |-> 90, len |-> 30],
     [year |-> 2025, month |-> 4, first |-> 120, len |-> 31] >>

\* The day count of an instant, and the month that day falls in.
DayOf(t) == t \div 24

MonthOf(t) ==
  Months[CHOOSE m \in DOMAIN Months :
           Months[m].first <= DayOf(t) /\ DayOf(t) < Months[m].first + Months[m].len]

getHours(t) == t % 24

\* 2025-01-01 is a Wednesday; getDay() gives 0 for Sunday.
getDay(t) == (DayOf(t) + 3) % 7

getDate(t) == DayOf(t) - MonthOf(t).first + 1

getMonth(t) == MonthOf(t).month

getFullYear(t) == MonthOf(t).year

\* new Date(year, month, date) at 00:00; a date below 1 counts back into the
\* months before.
NewDate(year, month, date) ==
  LET m == CHOOSE k \in DOMAIN Months : Months[k].year = year /\ Months[k].month = month
  IN 24 * (Months[m].first + date - 1)

\* d.setDate(date): the same month and time of day, another day of the month.
setDate(t, date) == NewDate(getFullYear(t), getMonth(t), date) + getHours(t)

\* d.setHours(0, 0, 0, 0)
setHoursZero(t) == t - getHours(t)

\* The week starts on Sunday.
DaysSinceMonday_SundayFirst(day) == day

\* const diff = (day + 6) % 7
DaysSinceMonday(day) == (day + 6) % 7

\* getCurrentPeriodStart(period), with the instant new Date() reads.
getCurrentPeriodStart(period, at) ==
  IF period = "weekly"
  THEN setHoursZero(setDate(at, getDate(at) - DaysSinceMonday(getDay(at))))
  ELSE setHoursZero(NewDate(getFullYear(at), getMonth(at), 1))

\* A JSON value of a transaction's date or createdAt is a pair of its kind
\* and its content: a text in ISO form with the instant it denotes, any other
\* text, null, or undefined for a key the transaction does not have.
Prop(tx, k) == IF k \in DOMAIN tx THEN tx[k] ELSE <<"undefined">>

\* a || b
OrElse(a, b) ==
  IF a[1] \in {"undefined", "null"} \/ (a[1] = "string" /\ a[2] = "") THEN b ELSE a

\* An Invalid Date.
InvalidDate == [valid |-> FALSE, t |-> 0]

\* new Date(value): the instant of a text in ISO form, 1970-01-01 for null,
\* an Invalid Date for undefined and for any other text.
DateOf(value) ==
  CASE value[1] = "iso" -> [valid |-> TRUE, t |-> value[2]]
    [] value[1] = "null" -> [valid |-> TRUE, t |-> 0 - (20089 * 24)]
    [] OTHER -> InvalidDate

\* The filter keeps transactions dated before the period started.
KeepsTx_Before(tx, periodStart) ==
  LET txDate == DateOf(OrElse(Prop(tx, "date"), Prop(tx, "createdAt")))
  IN txDate.valid /\ txDate.t < periodStart

\* The callback of the filter: txDate >= periodStart, which is false for an
\* Invalid Date.
KeepsTx(tx, periodStart) ==
  LET txDate == DateOf(OrElse(Prop(tx, "date"), Prop(tx, "createdAt")))
  IN txDate.valid /\ txDate.t >= periodStart

\* filterTransactionsByPeriod(transactions, period), with the instant
\* new Date() reads.
filterTransactionsByPeriod(transactions, period, at) ==
  SelectSeq(transactions, LAMBDA tx : KeepsTx(tx, getCurrentPeriodStart(period, at)))

\* The last day the clock of the client is read on, counted from 2025-01-01.
MaxDay == 89

\* The longest list of transactions filtered.
MaxTxList == 2

\* Instants the clock is read at: the first and the last hour of every day
\* from 2025-01-01 on.
Instants == {24 * d + h : d \in 0..MaxDay, h \in {0, 23}}

\* Periods callers pass: the two of a budget, another one, and none.
PeriodArgs == {"weekly", "monthly", "yearly", undefined}

\* Transactions the client filters: dated in January, at 00:00 of Monday
\* 2025-03-03, in April or May; carrying createdAt only; with a date that
\* is empty, null or not a date next to a createdAt; and carrying neither.
TxShapes ==
  { [date |-> <<"iso", 24 * 14 + 10>>],
    [date |-> <<"iso", 24 * 61>>],
    [date |-> <<"iso", 24 * 100 + 10>>],
    [date |-> <<"iso", 24 * 130>>, createdAt |-> <<"iso", 24 * 14 + 10>>],
    [createdAt |-> <<"iso", 24 * 61>>],
    [date |-> <<"string", "">>, createdAt |-> <<"iso", 24 * 61>>],
    [date |-> <<"null">>, createdAt |-> <<"iso", 24 * 61>>],
    [date |-> <<"string", "soon">>, createdAt |-> <<"iso", 24 * 61>>],
    [amount |-> 5] }

TxLists == UNION {[1..n -> TxShapes] : n \in 0..MaxTxList}

\* A component is about to call one of the two functions.
InitPeriod ==
  /\ now = 1 /\ rnd = 0 /\ oids = 0
  /\ db \in BOOLEAN
  /\ memUsers = [o \in {} |-> <<>>]
  /\ memBudgets = [o \in Owners |-> <<>>]
  /\ memTx = [o \in Owners |-> <<>>]
  /\ memCategories = [o \in Owners |-> <<>>]
  /\ usersCol = <<>> /\ budgetsCol = <<>> /\ txCol = <<>> /\ categoriesCol = <<>>
  /\ \E c \in {Started("p1", "getCurrentPeriodStart", "none", [period |-> period, at |-> at]) :
                 period \in PeriodArgs, at \in Instants}
          \cup {Started("p1", "filterTransactionsByPeriod", "none",
                        [transactions |-> txs, period |-> period, at |-> at]) :
                 txs \in TxLists, period \in {"weekly", "monthly"}, at \in Instants} :
       call = [p \in Procs |-> IF p = "p1" THEN c ELSE Idle]

getCurrentPeriodStart_call(p) ==
  /\ call[p].pc = "run"
  /\ call[p].op = "getCurrentPeriodStart"
  /\ call' = [call EXCEPT ![p] =
       Returned(call[p], getCurrentPeriodStart(call[p].args.period, call[p].args.at))]
  /\ UNCHANGED <<now, rnd, oids, db, memVars, colVars>>

filterTransactionsByPeriod_call(p) ==
  /\ call[p].pc = "run"
  /\ call[p].op = "filterTransactionsByPeriod"
  /\ call' = [call EXCEPT ![p] =
       Returned(call[p], filterTransactionsByPeriod(call[p].args.transactions,
                                                    call[p].args.period, call[p].args.at))]
  /\ UNCHANGED <<now, rnd, oids, db, memVars, colVars>>

NextPeriod ==
  \/ getCurrentPeriodStart_call("p1")
  \/ filterTransactionsByPeriod_call("p1")

SpecPeriod == InitPeriod /\ [][NextPeriod]_vars


\* ---- the spending totals of the web client
\* Every finite amount is added, whatever its sign.
countsAmount_AnySign(amt) == amt.finite

\* Number.isFinite(amt) && amt > 0
countsAmount(amt) == amt.finite /\ amt.n > 0

\* filteredTransactions.reduce((sum, tx) => { const amt = Number(tx.amount);
\* return Number.isFinite(amt) && amt > 0 ? sum + amt : sum }, 0)
RECURSIVE sumCounted(_)
sumCounted(txs) ==
  IF txs = <<>> THEN 0
  ELSE LET amt == Number(AmountField(txs[Len(txs)]))
           sum == sumCounted(SubSeq(txs, 1, Len(txs) - 1))
       IN IF countsAmount(amt) THEN sum + amt.n ELSE sum

\* const periods = [...new Set(budgets.map(b => b.period))]
periodsOf(budgets) == {Field(budgets[i], "period") : i \in DOMAIN budgets}

\* The monthly window is used whenever a monthly budget is present.
activePeriod_MonthlyFirst(budgets) ==
  IF "monthly" \in periodsOf(budgets) \/ "weekly" \notin periodsOf(budgets)
  THEN "monthly" ELSE "weekly"

\* periods.includes("weekly") ? "weekly" : "monthly"; the "monthly" pushed
\* for an empty list changes nothing.
activePeriod(budgets) ==
  IF "weekly" \in periodsOf(budgets) THEN "weekly" ELSE "monthly"

\* calculateCurrentPeriodSpending(transactions, budgets), with the instant
\* new Date() reads.
calculateCurrentPeriodSpending(transactions, budgets, at) ==
  sumCounted(filterTransactionsByPeriod(transactions, activePeriod(budgets), at))

\* a + b on numbers, where undefined + b is NaN.
Plus(a, b) ==
  IF a.finite /\ b.finite THEN [finite |-> TRUE, n |-> a.n + b.n] ELSE NaN

\* budgets.forEach(...) of calculateSpendingByPeriod over the first k
\* budgets: periods[period] += spent, which creates the key when the object
\* does not have it.
RECURSIVE spendingAfter(_, _, _, _)
spendingAfter(transactions, budgets, at, k) ==
  IF k = 0
  THEN [key \in {"weekly", "monthly"} |-> [finite |-> TRUE, n |-> 0]]
  ELSE LET periods == spendingAfter(transactions, budgets, at, k - 1)
           period == IF IsTruthy(Field(budgets[k], "period"))
                     THEN budgets[k].period ELSE "monthly"
           spent == sumCounted(filterTransactionsByPeriod(transactions, period, at))
           old == IF period \in DOMAIN periods THEN periods[period] ELSE NaN
       IN Merge(periods, [key \in {period} |-> Plus(old, [finite |-> TRUE, n |-> spent])])

calculateSpendingByPeriod(transactions, budgets, at) ==
  spendingAfter(transactions, budgets, at, Len(budgets))

\* The first and last day the clock is read on for the totals, counted from
\* 2025-01-01: from Tuesday 2025-01-28 to Wednesday 2025-03-12.
FirstSpendDay == 27

LastSpendDay == 70

SpendInstants == {24 * d + 11 : d \in FirstSpendDay..LastSpendDay}

\* The longest list of transactions totalled.
MaxSpendList == 2

\* Transactions the client totals: dated Thursday 2025-01-30 or Monday
\* 2025-03-03, with an amount that is a number above, at or below zero, a
\* numeric text, another text, null, NaN, or missing.
SpendShapes ==
  { [date |-> <<"iso", 24 * 29 + 9>>, amount |-> <<"number", 50>>],
    [date |-> <<"iso", 24 * 29 + 9>>, amount |-> <<"string", "7">>],
    [date |-> <<"iso", 24 * 29 + 9>>, amount |-> <<"number", 0 - 10>>],
    [date |-> <<"iso", 24 * 61 + 9>>, amount |-> <<"number", 30>>],
    [date |-> <<"iso", 24 * 61 + 9>>, amount |-> <<"number", 0>>],
    [date |-> <<"iso", 24 * 61 + 9>>, amount |-> <<"string", "invalid">>],
    [date |-> <<"iso", 24 * 61 + 9>>, amount |-> <<"null">>],
    [date |-> <<"iso", 24 * 61 + 9>>, amount |-> <<"NaN">>],
    [date |-> <<"iso", 24 * 61 + 9>>] }

SpendLists == UNION {[1..n -> SpendShapes] : n \in 0..MaxSpendList}

\* Budget lists the client holds: none, one or both periods in either
\* order, a budget without period, one with an empty period and one with a
\* period that is neither weekly nor monthly.
BudgetLists ==
  { <<>>,
    <<[period |-> "weekly", amount |-> 100]>>,
    <<[period |-> "monthly", amount |-> 500]>>,
    <<[period |-> "weekly", amount |-> 100], [period |-> "monthly", amount |-> 500]>>,
    <<[period |-> "monthly", amount |-> 500], [period |-> "weekly", amount |-> 100]>>,
    <<[amount |-> 500], [period |-> "monthly", amount |-> 500]>>,
    <<[period |-> "", amount |-> 500]>>,
    <<[period |-> "yearly", amount |-> 900], [amount |-> 500]>> }

\* A component is about to compute one of the two totals.
InitSpending ==
  /\ now = 1 /\ rnd = 0 /\ oids = 0
  /\ db \in BOOLEAN
  /\ memUsers = [o \in {} |-> <<>>]
  /\ memBudgets = [o \in Owners |-> <<>>]
  /\ memTx = [o \in Owners |-> <<>>]
  /\ memCategories = [o \in Owners |-> <<>>]
  /\ usersCol = <<>> /\ budgetsCol = <<>> /\ txCol = <<>> /\ categoriesCol = <<>>
  /\ \E op \in {"calculateCurrentPeriodSpending", "calculateSpendingByPeriod"},
        txs \in SpendLists, budgets \in BudgetLists, at \in SpendInstants :
       call = [p \in Procs |->
                 IF p = "p1"
                 THEN Started(p, op, "none",
                              [transactions |-> txs, budgets |-> budgets, at |-> at])
                 ELSE Idle]

calculateCurrentPeriodSpending_call(p) ==
  /\ call[p].pc = "run"
  /\ call[p].op = "calculateCurrentPeriodSpending"
  /\ call' = [call EXCEPT ![p] =
       Returned(call[p], calculateCurrentPeriodSpending(call[p].args.transactions,
                                                        call[p].args.budgets, call[p].args.at))]
  /\ UNCHANGED <<now, rnd, oids, db, memVars, colVars>>

calculateSpendingByPeriod_call(p) ==
  /\ call[p].pc = "run"
  /\ call[p].op = "calculateSpendingByPeriod"
  /\ call' = [call EXCEPT ![p] =
       Returned(call[p], calculateSpendingByPeriod(call[p].args.transactions,
                                                   call[p].args.budgets, call[p].args.at))]
  /\ UNCHANGED <<now, rnd, oids, db, memVars, colVars>>

NextSpending ==
  \/ calculateCurrentPeriodSpending_call("p1")
  \/ calculateSpendingByPeriod_call("p1")

SpecSpending == InitSpending /\ [][NextSpending]_vars


\* ---- the transaction route in front of the two stores
\* Bodies clients post to /api/transactions: an expense in a default
\* category, one in a category whose name MongoDB rejects as a pattern, one
\* without category and one with an amount of zero.
TxBodies ==
  { [amount |-> <<"number", 5>>, category |-> <<"O","t","h","e","r">>],
    [amount |-> <<"number", 6>>, category |-> <<"+">>],
    [amount |-> <<"number", 5>>],
    [amount |-> <<"number", 0>>, category |-> <<"O","t","h","e","r">>] }

\* !category || typeof category !== 'string'
CategoryRejected(body) == "category" \notin DOMAIN body \/ body.category = <<>>

\* The request slot p handles is left without a response: the promise of its
\* handler rejected outside any try block.
Unanswered(p) ==
  /\ call' = [call EXCEPT ![p].pc = "unanswered"]
  /\ UNCHANGED <<now, rnd, oids, db, memVars, colVars>>

\* The existence check is made again at the moment the transaction is
\* stored.
checkPassed_AtCreate(p) ==
  /\ call[p].result
  /\ SomeNameEquals(storedCategories(call[p].owner), call[p].args.name)

\* if (!(await categoryExists(sub, trimmedCategory))): the value the check
\* resolved to.
checkPassed(p) == call[p].result

\* POST /api/transactions up to its first await: the two validations, then
\* categoryExists(sub, trimmedCategory).
POST_transactions(p, sub, body) ==
  IF AmountRejected(Number(AmountField(body)))
  THEN Responds400(p, "POST /api/transactions", sub, "Expense amount must be greater than zero.")
  ELSE IF CategoryRejected(body)
  THEN Responds400(p, "POST /api/transactions", sub, "Expense category is required.")
  ELSE categoryExists(p, sub, trim(body.category))

\* POST /api/transactions after categoryExists has settled: a rejection is
\* caught by nothing, false is answered with 400, and true goes on to
\* createTransaction with the amount and the trimmed category of the body.
POST_transactions_afterCheck(p) ==
  /\ call[p].op = "categoryExists"
  /\ call[p].pc = "done"
  /\ IF ~call[p].ok
     THEN Unanswered(p)
     ELSE IF ~checkPassed(p)
     THEN Responds400(p, "POST /api/transactions", call[p].owner,
                      "Category does not exist. Create it first before logging expenses.")
     ELSE \E body \in TxBodies :
            /\ ~AmountRejected(Number(AmountField(body)))
            /\ ~CategoryRejected(body)
            /\ trim(body.category) = call[p].args.name
            /\ createTransaction(p, call[p].owner,
                                 [amount |-> Number(AmountField(body)).n,
                                  category |-> trim(body.category),
                                  date |-> undefined, description |-> undefined])

\* A slot takes a new request when it handles none.
Free(p) == call[p].pc \in {"idle", "done"} /\ call[p].op # "categoryExists"

\* A POST /api/transactions in slot p1 next to category requests in slot p2.
NextTxRace ==
  \/ \E o \in CatOwners, body \in TxBodies : Free("p1") /\ POST_transactions("p1", o, body)
  \/ POST_transactions_afterCheck("p1")
  \/ createTransaction_findOne("p1")
  \/ \E o \in CatOwners : listCategories("p2", o)
  \/ ensureDbCategories_insertMany("p2")
  \/ ensureDbCategories_find("p2")
  \/ \E o \in CatOwners, id \in CategoryIds("p2") : deleteCategory("p2", o, id)

SpecTxRace == Init /\ [][NextTxRace]_vars


\* ---- an update and a delete of the same transaction on MongoDB
\* The changes PUT /api/transactions/:id passes on.
TxChanges == { [amount |-> 9] }

\* The ids a caller can name: those of the transactions any owner is shown,
\* and the id its previous call named.
TxIds(p) ==
  UNION {{listTransactionsView(o)[i].id : i \in DOMAIN listTransactionsView(o)} : o \in Owners}
    \cup PreviousId(p)

\* Slot p1 creates and updates transactions while slot p2 deletes them.
NextTxUpdateRace ==
  \/ \E o \in Owners, tx \in TxInputs : createTransaction("p1", o, tx)
  \/ createTransaction_findOne("p1")
  \/ \E o \in Owners, id \in TxIds("p1"), ch \in TxChanges : updateTransaction("p1", o, id, ch)
  \/ updateTransaction_findOneAndUpdate("p1")
  \/ \E o \in Owners, id \in TxIds("p2") : deleteTransaction("p2", o, id)

SpecTxUpdateRace == InitDurable /\ [][NextTxUpdateRace]_vars


\* ---- the start of the server
\* The process has been launched: start() is about to call connectDb(), the
\* db of db.js is still undefined and nothing is stored.  Slot p2 holds the
\* position of start().
InitBoot ==
  /\ now = 1 /\ rnd = 0 /\ oids = 0
  /\ db = FALSE
  /\ memUsers = [o \in {} |-> <<>>]
  /\ memBudgets = [o \in Owners |-> <<>>]
  /\ memTx = [o \in Owners |-> <<>>]
  /\ memCategories = [o \in Owners |-> <<>>]
  /\ usersCol = <<>> /\ budgetsCol = <<>> /\ txCol = <<>> /\ categoriesCol = <<>>
  /\ call = [p \in Procs |->
               IF p = "p2" THEN Started(p, "start", "none", <<>>) ELSE Idle]

\* await connectDb(): db is set when the connection succeeds and left
\* undefined when the URI is missing or the connection fails.
start_connect(p) ==
  /\ call[p].op = "start"
  /\ call[p].pc = "run"
  /\ db' \in BOOLEAN
  /\ call' = [call EXCEPT ![p].pc = "ensureIndexes"]
  /\ UNCHANGED <<now, rnd, oids, memVars, colVars>>

\* await ensureIndexes(), then app.listen(port, ...).
start_ensureIndexes(p) ==
  /\ call[p].op = "start"
  /\ call[p].pc = "ensureIndexes"
  /\ call' = [call EXCEPT ![p] = Returned(call[p], "listening")]
  /\ UNCHANGED <<now, rnd, oids, db, memVars, colVars>>

\* The server accepts requests from the moment the process is launched.
Listening_FromLaunch == call["p2"].op = "start"

\* Requests are handled once app.listen has been called, which is the last
\* statement of start().
Listening == call["p2"].op = "start" /\ call["p2"].pc = "done"

\* The start of the server, then budget and bootstrap requests one at a
\* time.
NextBoot ==
  \/ start_connect("p2")
  \/ start_ensureIndexes("p2")
  \/ Listening /\ \E o \in Owners, b \in BudgetInputs : createBudget("p1", o, b)
  \/ Listening /\ createBudget_findOne("p1")
  \/ Listening /\ \E o \in Owners : listBudgets("p1", o)
  \/ Listening /\ \E o \in Owners, id \in BudgetIds("p1") : deleteBudget("p1", o, id)
  \/ Listening /\ \E o \in Owners, e \in Emails : upsertUser("p1", o, e)

SpecBoot == InitBoot /\ [][NextBoot]_vars


\* ---- the route handlers, one request at a time
\* POST /api/bootstrap: a token without sub is answered with 400; otherwise
\* upsertUser is awaited, outside any try block, with email || null.
POST_bootstrap(p, auth0_id, email) ==
  IF auth0_id = ""
  THEN Responds400(p, "POST /api/bootstrap", auth0_id, "auth0_id missing in token")
  ELSE upsertUser(p, auth0_id, IF Truthy(email) THEN email ELSE null)

\* Bodies posted to /api/budgets and to /api/transactions by the client
\* whose requests are followed.
RouteBudgetBodies ==
  { [period |-> "monthly", amount |-> <<"number", 500>>],
    [period |-> "yearly", amount |-> <<"number", 100>>] }

\* A request of each family of routes reaches its handler; every store
\* rejection inside a try block is answered with the error message.
NextRoutes ==
  \/ \E o \in UserIds, e \in Emails : Free("p1") /\ POST_bootstrap("p1", o, e)
  \/ \E o \in CatOwners, body \in RouteBudgetBodies : Free("p1") /\ POST_budgets("p1", o, body)
  \/ createBudget_findOne("p1")
  \/ \E o \in CatOwners, id \in BudgetIds("p1") : Free("p1") /\ deleteBudget("p1", o, id)
  \/ \E o \in CatOwners : Free("p1") /\ listCategories("p1", o)
  \/ ensureDbCategories_insertMany("p1")
  \/ ensureDbCategories_find("p1")
  \/ \E o \in CatOwners, id \in CategoryIds("p1") : Free("p1") /\ deleteCategory("p1", o, id)
  \/ \E o \in CatOwners, body \in TxBodies : Free("p1") /\ POST_transactions("p1", o, body)
  \/ POST_transactions_afterCheck("p1")
  \/ createTransaction_findOne("p1")

\* The database answers every command and the event loop resumes every
\* handler whose awaited promise has settled.
FairRoutes ==
  /\ WF_vars(createBudget_findOne("p1"))
  /\ WF_vars(ensureDbCategories_insertMany("p1"))
  /\ WF_vars(ensureDbCategories_find("p1"))
  /\ WF_vars(POST_transactions_afterCheck("p1"))
  /\ WF_vars(createTransaction_findOne("p1"))

SpecRoutes == Init /\ [][NextRoutes]_vars /\ FairRoutes


\* ------------------------------------------------------------- claims
\* The names of a list of categories, in order.
NamesOf(list) == [i \in DOMAIN list |-> list[i].name]

\* In this step slot p, the only caller, starts the call `op`: the slot ran
\* no call and the step is not the clock's.
Begins(p, op) ==
  /\ Ready(p)
  /\ now' = now
  /\ call'[p].op = op

\* In this step the call `op` of slot p returns or throws.
Ends(p, op) ==
  /\ call'[p] # call[p]
  /\ call'[p].op = op
  /\ call'[p].pc = "done"

\* Two names are equal ignoring case, after trimming.
SameName(a, b) == toLowerCase(trim(a)) = toLowerCase(trim(b))

\* C1: in every reachable state no owner has two categories whose names are
\* equal ignoring case, after trimming - also when createCategory calls and
\* the first-read seeding interleave on the durable backend.
C1_NoCaseInsensitiveDuplicates ==
  \A o \in Owners :
    \A i, j \in DOMAIN storedCategories(o) :
      i # j => ~SameName(storedCategories(o)[i].name, storedCategories(o)[j].name)

\* C2: a createCategory whose trimmed name equals, ignoring case, the name of
\* a category the owner currently has fails with 'Category already exists'
\* and leaves the owner's category list unchanged.
C2_DuplicateNameIsConflict ==
  [][\A o \in Owners :
       (/\ Begins("p1", "createCategory")
        /\ call'["p1"].owner = o
        /\ \E i \in DOMAIN storedCategories(o) :
             SameName(storedCategories(o)[i].name, call'["p1"].args.name))
       => (/\ call'["p1"].pc = "done"
           /\ ~call'["p1"].ok
           /\ call'["p1"].err = "Category already exists."
           /\ storedCategories(o)' = storedCategories(o))]_vars

\* The five defaults in their order, each with emoji null.
IsDefaultSet(list) ==
  /\ NamesOf(list) = DEFAULT_CATEGORIES
  /\ \A i \in DOMAIN list : list[i].emoji = nullSeq

\* C3: for an owner with no category, listCategories returns exactly the five
\* defaults in their order with emoji null, and a listCategories that follows
\* a listCategories for the same owner returns the same list (same ids, same
\* order).
C3_FirstListSeedsDefaults ==
  [][\A o \in Owners :
       /\ (/\ Ends("p1", "listCategories")
           /\ call'["p1"].owner = o
           /\ \/ Ready("p1") /\ storedCategories(o) = <<>>
              \/ call["p1"].pc = "ensureDbCategories_find")
          => (call'["p1"].ok /\ IsDefaultSet(call'["p1"].result))
       /\ (/\ Begins("p1", "listCategories")
           /\ call'["p1"].owner = o
           /\ call["p1"].pc = "done" /\ call["p1"].op = "listCategories"
           /\ call["p1"].owner = o /\ call["p1"].ok)
          => (/\ call'["p1"].pc = "done"
              /\ call'["p1"].ok
              /\ call'["p1"].result = call["p1"].result)]_vars

\* A first listCategories has returned the seeded defaults from MongoDB.
C3_Witness ==
  /\ db
  /\ call["p1"].op = "listCategories"
  /\ call["p1"].pc = "done"
  /\ call["p1"].loc # <<>>
  /\ Len(call["p1"].result) = Len(DEFAULT_CATEGORIES)

\* The owner's documents that carry the k-th default name.
DefaultCopies(o, k) ==
  {i \in DOMAIN categoriesCol :
     categoriesCol[i].auth0_id = o /\ categoriesCol[i].name = DEFAULT_CATEGORIES[k]}

\* Slot p has completed a listCategories for o that found no category and
\* seeded.
SeededList(p, o) ==
  /\ call[p].op = "listCategories"
  /\ call[p].owner = o
  /\ call[p].pc = "done"
  /\ call[p].loc # <<>>

Did(p, op) ==
  /\ call[p].pc = "done"
  /\ call[p].op = op
  /\ call[p].ok

\* C5: the record r that createBudget returned is in listBudgets(owner), and
\* a deleteBudget(owner, r.id) that follows returns that same record r and
\* removes it from the list, whatever creates came before and however close
\* together in time.
C5_CreateDeleteRoundTrip ==
  [][\A o \in Owners :
       (Did("p1", "createBudget") /\ call["p1"].owner = o)
       => /\ \E i \in DOMAIN listBudgetsView(o) : listBudgetsView(o)[i] = call["p1"].result
          /\ (/\ Begins("p1", "deleteBudget")
              /\ call'["p1"].owner = o
              /\ call'["p1"].args.id = call["p1"].result.id)
             => (/\ call'["p1"].ok
                 /\ call'["p1"].result = call["p1"].result
                 /\ \E i \in DOMAIN listBudgetsView(o) :
                      /\ listBudgetsView(o)[i] = call["p1"].result
                      /\ listBudgetsView(o)' = RemoveAt(listBudgetsView(o), i))]_vars

\* C6: after deleteBudget(owner, id) succeeded, an updateBudget or
\* deleteBudget with the same owner and id that follows it fails with
\* 'Budget not found' and changes no stored budget.
C6_DeletedIdIsGone ==
  [][(/\ Did("p1", "deleteBudget")
      /\ Begins("p1", "updateBudget") \/ Begins("p1", "deleteBudget")
      /\ call'["p1"].owner = call["p1"].owner
      /\ call'["p1"].args.id = call["p1"].args.id)
     => (/\ ~call'["p1"].ok
         /\ call'["p1"].err = "Budget not found"
         /\ memBudgets' = memBudgets
         /\ budgetsCol' = budgetsCol)]_vars

\* C7: no step of a call made with owner A changes what listBudgets returns
\* for another owner B, whatever the payload, on both backends.
C7_OwnerIsolation ==
  [][\A A, B \in Owners :
       (A # B /\ call'["p1"].owner = A)
       => listBudgetsView(B)' = listBudgetsView(B)]_vars

\* C8: updateBudget or deleteBudget called by owner A with the id of a budget
\* of another owner B fails with 'Budget not found' and changes no budget of
\* A or of B.
C8_ForeignIdIsNotFound ==
  [][\A A, B \in Owners :
       (/\ A # B
        /\ Begins("p1", "updateBudget") \/ Begins("p1", "deleteBudget")
        /\ call'["p1"].owner = A
        /\ \E i \in DOMAIN listBudgetsView(B) :
             listBudgetsView(B)[i].id = call'["p1"].args.id)
       => (/\ ~call'["p1"].ok
           /\ call'["p1"].err = "Budget not found"
           /\ listBudgetsView(A)' = listBudgetsView(A)
           /\ listBudgetsView(B)' = listBudgetsView(B))]_vars

\* C10: upsertUser(ownerId, email) returns created = true exactly when no
\* user record existed for ownerId before the call, and no ownerId ever has
\* more than one user record.
C10_CreatedIffNew ==
  [][\A o \in UserIds :
       (Begins("p1", "upsertUser") /\ call'["p1"].owner = o)
       => /\ call'["p1"].ok
          /\ call'["p1"].result.created = ~userExists(o)
          /\ Cardinality({i \in DOMAIN usersCol' : usersCol'[i].auth0_id = o}) <= 1]_vars

\* What a caller sees of a category: its name and emoji.
Shown(c) == [name |-> c.name, emoji |-> c.emoji]

\* What a caller sees of a successful Category Store call.
Outcome(c) ==
  IF c.op = "listCategories" THEN [i \in DOMAIN c.result |-> Shown(c.result[i])]
  ELSE IF c.op = "categoryExists" THEN c.result
  ELSE Shown(c.result)

\* C9: after any history of Category Store calls on a fresh owner, the
\* in-memory backend and the durable backend answer the same call with the
\* same outcome: both succeed with the same names (or the same boolean), or
\* both fail with the same error.
C9_BackendParity ==
  (db /\ call["p2"].pc = "done")
  => /\ call["p2"].ok = call["p1"].ok
     /\ ~call["p1"].ok => call["p2"].err = call["p1"].err
     /\ call["p1"].ok => Outcome(call["p2"]) = Outcome(call["p1"])

\* C11: upsertUser called with an empty ownerId fails (it returns no result
\* object) and creates or changes no user record.
C11_EmptyOwnerIdIsRejected ==
  [][(Begins("p1", "upsertUser") /\ call'["p1"].owner = "")
     => (/\ ~call'["p1"].ok
         /\ memUsers' = memUsers
         /\ usersCol' = usersCol)]_vars

\* The e-mail address stored for an owner who has a user record.
StoredEmail(o) ==
  IF ~db THEN memUsers[o].email
  ELSE usersCol[FindIndex({i \in DOMAIN usersCol : usersCol[i].auth0_id = o})].email

\* C12: upsertUser with a null e-mail on an ownerId that already has a record
\* leaves the stored e-mail unchanged, on both backends.
C12_NullEmailKeepsStoredEmail ==
  [][\A o \in Owners :
       (/\ Begins("p1", "upsertUser")
        /\ call'["p1"].owner = o
        /\ call'["p1"].args.email = null
        /\ userExists(o))
       => StoredEmail(o)' = StoredEmail(o)]_vars

\* Record a is record b except, at most, for emoji and updatedAt.
SameButEmoji(a, b) ==
  /\ DOMAIN a \subseteq DOMAIN b \cup {"emoji", "updatedAt"}
  /\ \A f \in DOMAIN b \ {"emoji", "updatedAt"} : f \in DOMAIN a /\ a[f] = b[f]

ClusterStarts(s) ==
  {i \in DOMAIN s :
     i = 1 \/ (s[i] \notin {"VS", "ZWJ"} /\ s[i - 1] # "ZWJ")}

\* The first n whole grapheme clusters of a string that has more than n.
FirstClusters(s, n) ==
  LET later == {i \in ClusterStarts(s) :
                  Cardinality({j \in ClusterStarts(s) : j < i}) >= n}
  IN SubSeq(s, 1, Min(later) - 1)

\* C14: for an emoji input of more than 3 grapheme clusters the normalised
\* emoji is exactly the first 3 whole clusters of the trimmed input.
C14_ThreeWholeClusters ==
  (/\ call["p1"].op = "normalizeEmojiValue"
   /\ call["p1"].pc = "done"
   /\ Cardinality(ClusterStarts(trim(call["p1"].args.value))) > 3)
  => call["p1"].result = FirstClusters(trim(call["p1"].args.value), 3)

\* C15: deleteCategory and updateCategory leave every transaction of every
\* owner unchanged: a transaction that named the deleted category keeps its
\* category string and is still returned by listTransactions.
C15_NoCascade ==
  [][(Begins("p1", "deleteCategory") \/ Begins("p1", "updateCategory"))
     => (/\ memTx' = memTx
         /\ txCol' = txCol
         /\ \A o \in Owners : listTransactionsView(o)' = listTransactionsView(o))]_vars

\* A category has been deleted while a transaction of its owner names it.
C15_Witness ==
  /\ call["p1"].op = "deleteCategory"
  /\ call["p1"].pc = "done"
  /\ call["p1"].ok
  /\ \E i \in DOMAIN listTransactionsView(call["p1"].owner) :
       listTransactionsView(call["p1"].owner)[i].category = call["p1"].result.name

\* C16: whenever an owner has zero categories - before first use or after
\* deleting every one of them - the next listCategories seeds and returns
\* exactly the five defaults, which are then what the owner has stored, and
\* no listCategories returns an empty list.
C16_EmptyOwnerIsSeeded ==
  [][\A o \in Owners :
       /\ (/\ Begins("p1", "listCategories")
           /\ call'["p1"].owner = o
           /\ storedCategories(o) = <<>>
           /\ db)
          => call'["p1"].pc = "ensureDbCategories_insertMany"
       /\ (/\ Ends("p1", "listCategories")
           /\ call'["p1"].owner = o
           /\ \/ Ready("p1") /\ storedCategories(o) = <<>>
              \/ call["p1"].pc = "ensureDbCategories_find")
          => (/\ IsDefaultSet(call'["p1"].result)
              /\ storedCategories(o)' = call'["p1"].result)
       /\ (Ends("p1", "listCategories") /\ call'["p1"].owner = o)
          => (call'["p1"].ok /\ call'["p1"].result # <<>>)]_vars

\* The deleting owner has been seeded a second time: the other owner never
\* listed, and the ids returned come after those of a first seeding.
C16_Witness ==
  /\ call["p1"].op = "listCategories"
  /\ call["p1"].pc = "done"
  /\ call["p1"].owner = Deleter
  /\ IsDefaultSet(call["p1"].result)
  /\ \A o \in Owners \ {Deleter} : storedCategories(o) = <<>>
  /\ \A i \in DOMAIN call["p1"].result :
       LET id == call["p1"].result[i].id
       IN (IF db THEN id[2] ELSE id[3]) > Len(DEFAULT_CATEGORIES)

\* C17: after any sequence of POST /api/budgets and PUT /api/budgets/:id
\* requests, every budget the store holds has a finite amount greater than
\* zero and a period that is exactly 'weekly' or 'monthly'.
C17_StoredBudgetsAreValid ==
  \A o \in Owners :
    \A i \in DOMAIN listBudgetsView(o) :
      /\ listBudgetsView(o)[i].amount > 0
      /\ listBudgetsView(o)[i].period \in allowedPeriods

\* A getCurrentPeriodStart call has returned.
PeriodStartDone ==
  /\ call["p1"].op = "getCurrentPeriodStart"
  /\ call["p1"].pc = "done"

\* C18: getCurrentPeriodStart('weekly') is 00:00 of the most recent Monday
\* (today on a Monday, never in the future, never more than 6 days before
\* today), getCurrentPeriodStart('monthly') is 00:00 of day 1 of the current
\* month, and any other argument, a missing one included, gives what
\* 'monthly' gives.
C18_PeriodStart ==
  PeriodStartDone =>
    LET start == call["p1"].result
        at == call["p1"].args.at
        period == call["p1"].args.period
    IN /\ period = "weekly"
          => (/\ getDay(start) = 1
              /\ getHours(start) = 0
              /\ start <= at
              /\ DayOf(at) - DayOf(start) <= 6
              /\ getDay(at) = 1 => DayOf(start) = DayOf(at))
       /\ period = "monthly"
          => (/\ getDate(start) = 1
              /\ getHours(start) = 0
              /\ getMonth(start) = getMonth(at)
              /\ getFullYear(start) = getFullYear(at))
       /\ period \notin {"weekly", "monthly"}
          => start = getCurrentPeriodStart("monthly", at)

\* The week's start has been computed on a Sunday whose week began in the
\* month before.
C18_Witness ==
  /\ call["p1"].op = "getCurrentPeriodStart"
  /\ call["p1"].pc = "done"
  /\ call["p1"].args.period = "weekly"
  /\ getDay(call["p1"].args.at) = 0
  /\ getMonth(call["p1"].result) # getMonth(call["p1"].args.at)
  /\ DayOf(call["p1"].args.at) - DayOf(call["p1"].result) = 6

\* A filterTransactionsByPeriod call has returned.
FilterDone ==
  /\ call["p1"].op = "filterTransactionsByPeriod"
  /\ call["p1"].pc = "done"

\* A date value parses to an instant at or after the start of the period.
InPeriod(value, period, at) ==
  value[1] = "iso" /\ value[2] >= getCurrentPeriodStart(period, at)

\* The effective date as stated: the date field, or createdAt when the
\* transaction has no date field.
EffectiveDateAsStated(tx) ==
  IF "date" \in DOMAIN tx THEN tx.date ELSE Prop(tx, "createdAt")

\* The effective date when an empty date counts as no date: the date field
\* unless it is missing, null or the empty text, and createdAt then.
EffectiveDate(tx) ==
  IF /\ "date" \in DOMAIN tx
     /\ tx.date[1] # "null"
     /\ ~(tx.date[1] = "string" /\ tx.date[2] = "")
  THEN tx.date
  ELSE Prop(tx, "createdAt")

\* C19 as stated: filterTransactionsByPeriod keeps exactly the transactions
\* whose effective date - the date field, or createdAt when date is absent -
\* parses to an instant at or after getCurrentPeriodStart(period), in their
\* order; transactions with neither field or an unparsable effective date are
\* dropped.
C19_KeepsByStatedDate ==
  FilterDone =>
    call["p1"].result =
      SelectSeq(call["p1"].args.transactions,
                LAMBDA tx : InPeriod(EffectiveDateAsStated(tx),
                                     call["p1"].args.period, call["p1"].args.at))

\* C19, amended: the same with the effective date being the date field
\* unless it is missing, null or empty, and createdAt then.
C19_KeepsByEffectiveDate ==
  FilterDone =>
    call["p1"].result =
      SelectSeq(call["p1"].args.transactions,
                LAMBDA tx : InPeriod(EffectiveDate(tx),
                                     call["p1"].args.period, call["p1"].args.at))

\* A transaction with createdAt only was kept and one whose date is not a
\* date was dropped although its createdAt is within the period.
C19_Witness ==
  /\ FilterDone
  /\ Len(call["p1"].args.transactions) = 2
  /\ "date" \notin DOMAIN call["p1"].args.transactions[1]
  /\ "createdAt" \in DOMAIN call["p1"].args.transactions[1]
  /\ Prop(call["p1"].args.transactions[2], "date")[1] = "string"
  /\ Prop(call["p1"].args.transactions[2], "date")[2] = "soon"
  /\ call["p1"].result = <<call["p1"].args.transactions[1]>>

\* The day count of the Monday that begins the week of an instant.
MondayOf(t) == DayOf(t) - ((getDay(t) + 6) % 7)

\* An instant lies in the calendar month, or in the Monday-to-Sunday week, of
\* the instant `at`.
WithinCurrent(period, t, at) ==
  IF period = "weekly"
  THEN MondayOf(t) = MondayOf(at)
  ELSE getMonth(t) = getMonth(at) /\ getFullYear(t) = getFullYear(at)

\* C20: every transaction filterTransactionsByPeriod returns for 'monthly' is
\* dated within the current calendar month, and every one it returns for
\* 'weekly' within the current Monday-to-Sunday week, whatever the dates of
\* the transactions are (past, present or future).
C20_ReturnedAreWithinPeriod ==
  FilterDone =>
    \A i \in DOMAIN call["p1"].result :
      /\ EffectiveDate(call["p1"].result[i])[1] = "iso"
      /\ WithinCurrent(call["p1"].args.period,
                       EffectiveDate(call["p1"].result[i])[2], call["p1"].args.at)

\* A calculateCurrentPeriodSpending call has returned.
CurrentSpendingDone ==
  /\ call["p1"].op = "calculateCurrentPeriodSpending"
  /\ call["p1"].pc = "done"

\* Some budget of the list has period 'weekly'.
HasWeekly(budgets) == \E i \in DOMAIN budgets : Field(budgets[i], "period") = "weekly"

\* An amount that counts: a finite number above zero, written as a number or
\* as a numeric text; 0 stands for an amount that does not count.
CountedAmount(tx) ==
  IF "amount" \notin DOMAIN tx THEN 0
  ELSE IF tx.amount[1] = "number" /\ tx.amount[2] > 0 THEN tx.amount[2]
  ELSE IF tx.amount[1] = "string" /\ tx.amount[2] = "7" THEN 7
  ELSE 0

\* The sum of the counted amounts of a list.
RECURSIVE SumOfCounted(_)
SumOfCounted(txs) ==
  IF txs = <<>> THEN 0 ELSE CountedAmount(Head(txs)) + SumOfCounted(Tail(txs))

\* C21: calculateCurrentPeriodSpending uses the weekly window if at least one
\* budget has period 'weekly' and the monthly window otherwise (an empty
\* list and budgets with a missing or unknown period included), and returns
\* the sum of the counted amounts of exactly the transactions that
\* filterTransactionsByPeriod keeps for that window.
C21_ActiveWindowSpending ==
  CurrentSpendingDone =>
    LET a == call["p1"].args
        window == IF HasWeekly(a.budgets) THEN "weekly" ELSE "monthly"
    IN call["p1"].result =
         SumOfCounted(filterTransactionsByPeriod(a.transactions, window, a.at))

\* With a weekly and a monthly budget the total is that of the week, which
\* differs from that of the month.
C21_Witness ==
  /\ CurrentSpendingDone
  /\ HasWeekly(call["p1"].args.budgets)
  /\ Len(call["p1"].args.budgets) = 2
  /\ call["p1"].result = 0
  /\ SumOfCounted(filterTransactionsByPeriod(call["p1"].args.transactions, "monthly",
                                             call["p1"].args.at)) > 0

\* An amount that is non-numeric, null, undefined, NaN, zero or negative.
IgnoredAmount(tx) ==
  \/ "amount" \notin DOMAIN tx
  \/ tx.amount[1] \in {"null", "NaN"}
  \/ tx.amount[1] = "number" /\ tx.amount[2] <= 0
  \/ tx.amount[1] = "string" /\ tx.amount[2] # "7"

\* The sum of the amounts of transactions none of which is ignored.
RECURSIVE SumOfAmounts(_)
SumOfAmounts(txs) ==
  IF txs = <<>> THEN 0
  ELSE (IF Head(txs).amount[1] = "number" THEN Head(txs).amount[2] ELSE 7)
       + SumOfAmounts(Tail(txs))

SpendingByPeriodDone ==
  /\ call["p1"].op = "calculateSpendingByPeriod"
  /\ call["p1"].pc = "done"

\* How many budgets of a list fall in the monthly bucket: those whose period
\* is 'monthly' and those without a period.
MonthlyBudgets(budgets) ==
  Cardinality({i \in DOMAIN budgets :
                 ~IsTruthy(Field(budgets[i], "period")) \/ budgets[i].period = "monthly"})

\* C23: for any list of budgets (budgets whose period is missing or is
\* neither 'weekly' nor 'monthly' included) and any list of transactions,
\* calculateSpendingByPeriod returns an object with exactly the two keys
\* weekly and monthly, each a finite number greater than or equal to 0, and
\* budgets lacking a period are counted in the monthly bucket.
C23_TwoFiniteBuckets ==
  SpendingByPeriodDone =>
    LET a == call["p1"].args
    IN /\ DOMAIN call["p1"].result = {"weekly", "monthly"}
       /\ \A key \in DOMAIN call["p1"].result :
            call["p1"].result[key].finite /\ call["p1"].result[key].n >= 0
       /\ call["p1"].result["monthly"].n =
            MonthlyBudgets(a.budgets)
              * SumOfCounted(filterTransactionsByPeriod(a.transactions, "monthly", a.at))

\* C26: weekly is the more restrictive window: the transactions
\* filterTransactionsByPeriod keeps for 'weekly' are among those it keeps
\* for 'monthly', so calculateCurrentPeriodSpending with a weekly budget
\* present never exceeds its value with only monthly budgets over the same
\* transactions.
C26_WeeklyWithinMonthly ==
  (CurrentSpendingDone /\ HasWeekly(call["p1"].args.budgets)) =>
    LET a == call["p1"].args
        weekly == filterTransactionsByPeriod(a.transactions, "weekly", a.at)
        monthly == filterTransactionsByPeriod(a.transactions, "monthly", a.at)
    IN /\ Range(weekly) \subseteq Range(monthly)
       /\ call["p1"].result <=
            calculateCurrentPeriodSpending(a.transactions,
                                           <<[period |-> "monthly", amount |-> 500]>>, a.at)

\* The transactions of an owner that name a category the owner does not
\* have.
Dangling(o) ==
  {i \in DOMAIN listTransactionsView(o) :
     ~SomeNameEquals(storedCategories(o), listTransactionsView(o)[i].category)}

C25_UpdateReturnsRecordOrNotFound ==
  (/\ db
   /\ call["p1"].op = "updateTransaction"
   /\ call["p1"].pc = "done")
  => \/ /\ call["p1"].ok
        /\ call["p1"].result # nullSeq
        /\ call["p1"].result.id = call["p1"].args.id
        /\ call["p1"].result.amount = 9
     \/ /\ ~call["p1"].ok
        /\ call["p1"].err = "Transaction not found"

\* Something is held by the in-memory fallback, or by MongoDB.
HeldInMemory ==
  \/ DOMAIN memUsers # {}
  \/ \E o \in Owners : memBudgets[o] # <<>> \/ memTx[o] # <<>> \/ memCategories[o] # <<>>

HeldInMongo ==
  usersCol # <<>> \/ budgetsCol # <<>> \/ txCol # <<>> \/ categoriesCol # <<>>

\* C27: every store operation within one process lifetime observes the same
\* backend choice: requests are handled only after the single connection
\* attempt of start() has finished, the choice does not change afterwards,
\* and so the in-memory fallback and MongoDB never both come to hold data.
C27_OneBackendPerLifetime ==
  [][/\ (call'["p1"] # call["p1"]) => (Listening /\ db' = db)
     /\ Listening => db' = db
     /\ ~(HeldInMemory' /\ HeldInMongo')]_vars

\* After a start whose connection succeeded, a second operation has been
\* served from MongoDB.
C27_Witness ==
  /\ Listening
  /\ db
  /\ Len(budgetsCol) = 2
  /\ usersCol # <<>>
  /\ call["p1"].pc = "done"
  /\ ~HeldInMemory

\* The ids of a list are pairwise distinct.
DistinctIds(list) ==
  \A i, j \in DOMAIN list : i # j => list[i].id # list[j].id

\* C28: in the in-memory backend the ids within one owner's budget list are
\* pairwise distinct in every reachable state, and likewise within the
\* owner's transaction list and category list.
C28_MemIdsAreDistinct ==
  \A o \in Owners :
    /\ DistinctIds(memBudgets[o])
    /\ DistinctIds(memTx[o])
    /\ DistinctIds(memCategories[o])

\* C29: a store operation that ends in an error (validation, conflict or
\* not-found) leaves every stored collection of every owner exactly as it
\* was before the call, also when updateCategory, deleteCategory or
\* createCategory is invoked for an owner who has no categories yet.
C29_ErrorsChangeNothing ==
  [][(/\ call'["p1"] # call["p1"]
      /\ call'["p1"].pc = "done"
      /\ ~call'["p1"].ok)
     => (/\ memUsers' = memUsers
         /\ memBudgets' = memBudgets
         /\ memTx' = memTx
         /\ memCategories' = memCategories
         /\ usersCol' = usersCol
         /\ budgetsCol' = budgetsCol
         /\ txCol' = txCol
         /\ categoriesCol' = categoriesCol)]_vars

\* The request slot p handles has not been answered yet.
RequestPending(p) ==
  \/ call[p].pc \notin {"idle", "done"}
  \/ call[p].pc = "done" /\ call[p].op = "categoryExists"

\* C30: every request that reaches a bootstrap, budget, transaction or
\* category route handler is eventually answered, also when the store
\* operation it awaits rejects.
C30_EveryRequestIsAnswered ==
  RequestPending("p1") ~> ~RequestPending("p1")

====
